---------------------------- MODULE Spec2Model ----------------------------
(***************************************************************************)
(* A model of mudrockdbcompare: the top-level run (main), the comparison   *)
(* engine (compareDatabases, compareTableSchema, compareStringSlices,      *)
(* compareIndexes, compareForeignKeys) and the adapters' schema extraction *)
(* and checksum comparisons.  Spec is the top-level run on databases of up *)
(* to MaxTables tables, ProgressSpec the row-count pass on up to           *)
(* MaxProgressTables tables in sync, StartupSpec the start of main with    *)
(* every engine tag, DatabaseInfoSpec main collecting the database         *)
(* information.  The other specifications are one call each:               *)
(* MySQLChecksumSpec, PostgresHashSpec and SQLiteChecksumSpec of the three *)
(* CompareTableDataByChecksum, TableSchemaSpec of compareTableSchema,      *)
(* PrimaryKeySpec of compareStringSlices on two primary-key lists,         *)
(* IndexSpec of compareIndexes or compareForeignKeys, ExtractSpec of       *)
(* GetTableSchema, CompareDatabasesSpec of compareDatabases.               *)
(*                                                                         *)
(* Table names are modelled as the naturals 1..MaxTables, column names and *)
(* data types as strings.  A Go map is a TLA+ function; the order in which *)
(* a range statement visits a map is unspecified in Go, so every such loop *)
(* takes its order as a nondeterministically chosen permutation.           *)
(***************************************************************************)
EXTENDS Integers, Sequences, FiniteSets, TLC

\* ------------------------------------------------------------------ bounds

\* The number of distinct table names the two databases may hold.
MaxTables == 2

\* The largest number of common tables of the progress specification.
MaxProgressTables == 120

TableNames == 1..MaxTables

\* The values a COUNT(*) query may return.
RowCountValues == {100, 101}

\* ----------------------------------------------------------------- helpers

Range(s) == {s[k] : k \in DOMAIN s}

NoDup(s) == \A a, b \in DOMAIN s : a # b => s[a] # s[b]

\* All the orders in which a range statement may visit the keys S of a map.
Perms(S) == {f \in [1..Cardinality(S) -> S] : Range(f) = S}

\* The visiting order of the keys `keys` induced by a priority order.
Restrict(order, keys) == SelectSeq(order, LAMBDA x : x \in keys)

\* The ascending sequence of a finite set of naturals.
RECURSIVE Ascending(_)
Ascending(S) ==
    IF S = {} THEN <<>>
    ELSE LET m == CHOOSE x \in S : \A y \in S : x <= y
         IN <<m>> \o Ascending(S \ {m})

\* ------------------------------------------------------------ the schemas

ColumnSchema(name, dataType, nullable, key) ==
    [Name |-> name, DataType |-> dataType, Nullable |-> nullable,
     Key |-> key, Default |-> "", Extra |-> ""]

TableSchema(name, columns, primaryKeys) ==
    [Name |-> name, Columns |-> columns, Indexes |-> <<>>,
     ForeignKeys |-> <<>>, PrimaryKeys |-> primaryKeys]

\* The schemas GetTableSchema may return for table t in the top-level run, on
\* the source and on the target: the pairs differ in no, one or several
\* properties.
SchemaA(t) == TableSchema(t, <<ColumnSchema("id", "int", "NO", "PRI")>>, <<"id">>)
SchemaB(t) == TableSchema(t, <<ColumnSchema("id", "text", "NO", "PRI")>>, <<"id">>)
SchemaC(t) ==
    TableSchema(t, <<ColumnSchema("id", "text", "YES", ""),
                     ColumnSchema("name", "text", "YES", "")>>, <<>>)

\* SchemaA but for the key, default and extra of its column, with an index and
\* a foreign key.
SchemaD(t) ==
    [Name |-> t,
     Columns |-> <<[Name |-> "id", DataType |-> "int", Nullable |-> "NO",
                    Key |-> "UNI", Default |-> "1", Extra |-> "auto_increment"]>>,
     Indexes |-> <<[Name |-> "idx_id", ColumnName |-> "id", NonUnique |-> 0]>>,
     ForeignKeys |-> <<[Name |-> "fk_id", ColumnName |-> "id",
                        ReferencedTable |-> "parent", ReferencedColumn |-> "id"]>>,
     PrimaryKeys |-> <<"id">>]

SourceSchemasOf(t) == {SchemaA(t)}

TargetSchemasOf(t) == {SchemaA(t), SchemaB(t), SchemaC(t), SchemaD(t)}

\* ------------------------------------------------------ compareStringSlices

\* A comparison of the two lists position by position.
compareStringSlicesInOrder(a, b) == a = b

compareStringSlices(a, b) ==
    IF Len(a) # Len(b) THEN FALSE
    ELSE LET mapA == Range(a)
             mapB == Range(b)
         IN (\A val \in mapA : val \in mapB) /\ (\A val \in mapB : val \in mapA)

\* ------------------------------------------------------ compareTableSchema

\* One entry of the difference list.  The formatted text is kept as its parts:
\* what it reports, and the table, column and the two values it names
\* (source and target are sequences: one data type or nullable marker, or a
\* primary-key list; empty for an existence entry).
Difference(kind, tableName, colName, source, target) ==
    [kind |-> kind, table |-> tableName, column |-> colName,
     source |-> source, target |-> target]

\* sourceColumns / targetColumns: the map from column name to column, a later
\* column of the same name overwriting an earlier one.
columnMap(columns) ==
    [n \in {columns[k].Name : k \in DOMAIN columns} |->
        columns[CHOOSE k \in DOMAIN columns :
                    /\ columns[k].Name = n
                    /\ \A j \in DOMAIN columns : columns[j].Name = n => j <= k]]

\* The body of the source loop with the two values of each entry exchanged.
sourceColumnDifferencesSwapped(tableName, colName, sourceColumns, targetColumns) ==
    IF colName \notin DOMAIN targetColumns
    THEN <<Difference("column in source only", tableName, colName, <<>>, <<>>)>>
    ELSE LET sourceCol == sourceColumns[colName]
             targetCol == targetColumns[colName]
         IN (IF sourceCol.DataType # targetCol.DataType
             THEN <<Difference("data type", tableName, colName,
                               <<targetCol.DataType>>, <<sourceCol.DataType>>)>>
             ELSE <<>>)
            \o
            (IF sourceCol.Nullable # targetCol.Nullable
             THEN <<Difference("nullable", tableName, colName,
                               <<targetCol.Nullable>>, <<sourceCol.Nullable>>)>>
             ELSE <<>>)

\* The body of the loop over the source columns, for one column.
sourceColumnDifferences(tableName, colName, sourceColumns, targetColumns) ==
    IF colName \notin DOMAIN targetColumns
    THEN <<Difference("column in source only", tableName, colName, <<>>, <<>>)>>
    ELSE LET sourceCol == sourceColumns[colName]
             targetCol == targetColumns[colName]
         IN (IF sourceCol.DataType # targetCol.DataType
             THEN <<Difference("data type", tableName, colName,
                               <<sourceCol.DataType>>, <<targetCol.DataType>>)>>
             ELSE <<>>)
            \o
            (IF sourceCol.Nullable # targetCol.Nullable
             THEN <<Difference("nullable", tableName, colName,
                               <<sourceCol.Nullable>>, <<targetCol.Nullable>>)>>
             ELSE <<>>)

\* The body of the target loop with its exists check inverted.
targetColumnDifferencesInverted(tableName, colName, sourceColumns, targetColumns) ==
    IF colName \in DOMAIN sourceColumns
    THEN <<Difference("column in target only", tableName, colName, <<>>, <<>>)>>
    ELSE <<>>

\* The body of the loop over the target columns, for one column.
targetColumnDifferences(tableName, colName, sourceColumns, targetColumns) ==
    IF colName \notin DOMAIN sourceColumns
    THEN <<Difference("column in target only", tableName, colName, <<>>, <<>>)>>
    ELSE <<>>

RECURSIVE sourceLoop(_, _, _, _)
sourceLoop(tableName, order, sourceColumns, targetColumns) ==
    IF order = <<>> THEN <<>>
    ELSE sourceColumnDifferences(tableName, Head(order), sourceColumns, targetColumns)
         \o sourceLoop(tableName, Tail(order), sourceColumns, targetColumns)

RECURSIVE targetLoop(_, _, _, _)
targetLoop(tableName, order, sourceColumns, targetColumns) ==
    IF order = <<>> THEN <<>>
    ELSE targetColumnDifferences(tableName, Head(order), sourceColumns, targetColumns)
         \o targetLoop(tableName, Tail(order), sourceColumns, targetColumns)

\* The primary-key step without the negation of its condition.
primaryKeyDifferencesUnnegated(tableName, sourceSchema, targetSchema) ==
    IF compareStringSlices(sourceSchema.PrimaryKeys, targetSchema.PrimaryKeys)
    THEN <<Difference("primary keys", tableName, "",
                      sourceSchema.PrimaryKeys, targetSchema.PrimaryKeys)>>
    ELSE <<>>

primaryKeyDifferences(tableName, sourceSchema, targetSchema) ==
    IF ~compareStringSlices(sourceSchema.PrimaryKeys, targetSchema.PrimaryKeys)
    THEN <<Difference("primary keys", tableName, "",
                      sourceSchema.PrimaryKeys, targetSchema.PrimaryKeys)>>
    ELSE <<>>

\* A compareTableSchema that folds the index and foreign-key findings into
\* its result.
compareTableSchemaWithIndexes(tableName, sourceSchema, targetSchema, srcOrder, tgtOrder) ==
    LET sourceColumns == columnMap(sourceSchema.Columns)
        targetColumns == columnMap(targetSchema.Columns)
        differences ==
            sourceLoop(tableName, Restrict(srcOrder, DOMAIN sourceColumns),
                       sourceColumns, targetColumns)
            \o targetLoop(tableName, Restrict(tgtOrder, DOMAIN targetColumns),
                          sourceColumns, targetColumns)
            \o primaryKeyDifferences(tableName, sourceSchema, targetSchema)
            \o (IF Range(sourceSchema.Indexes) # Range(targetSchema.Indexes)
                THEN <<Difference("indexes", tableName, "", <<>>, <<>>)>>
                ELSE <<>>)
            \o (IF Range(sourceSchema.ForeignKeys) # Range(targetSchema.ForeignKeys)
                THEN <<Difference("foreign keys", tableName, "", <<>>, <<>>)>>
                ELSE <<>>)
    IN [hasDifferences |-> differences # <<>>, differences |-> differences]

\* srcOrder and tgtOrder are priority orders over column names: the orders in
\* which the two range loops visit sourceColumns and targetColumns.
compareTableSchema(tableName, sourceSchema, targetSchema, srcOrder, tgtOrder) ==
    LET sourceColumns == columnMap(sourceSchema.Columns)
        targetColumns == columnMap(targetSchema.Columns)
        differences ==
            sourceLoop(tableName, Restrict(srcOrder, DOMAIN sourceColumns),
                       sourceColumns, targetColumns)
            \o targetLoop(tableName, Restrict(tgtOrder, DOMAIN targetColumns),
                          sourceColumns, targetColumns)
            \o primaryKeyDifferences(tableName, sourceSchema, targetSchema)
        hasDifferences ==
            \/ \E c \in DOMAIN sourceColumns :
                  \/ c \notin DOMAIN targetColumns
                  \/ /\ c \in DOMAIN targetColumns
                     /\ \/ sourceColumns[c].DataType # targetColumns[c].DataType
                        \/ sourceColumns[c].Nullable # targetColumns[c].Nullable
            \/ \E c \in DOMAIN targetColumns : c \notin DOMAIN sourceColumns
            \/ ~compareStringSlices(sourceSchema.PrimaryKeys, targetSchema.PrimaryKeys)
    IN [hasDifferences |-> hasDifferences, differences |-> differences]


\* -------------------------------------------------------- compareDatabases

\* The first loop, appending every source table to missingTables.
missingTablesUnchecked(order, targetSchemas) == order

\* The names the first loop appends to missingTables, in visiting order.
missingTablesOf(order, targetSchemas) ==
    SelectSeq(order, LAMBDA tableName : tableName \notin DOMAIN targetSchemas)

\* The first loop, skipping the table it visits first.
commonTablesAfterFirst(order, targetSchemas) ==
    SelectSeq(SubSeq(order, 2, Len(order)),
              LAMBDA tableName : tableName \in DOMAIN targetSchemas)

\* The names the first loop appends to commonTables, in visiting order.
commonTablesOf(order, targetSchemas) ==
    SelectSeq(order, LAMBDA tableName : tableName \in DOMAIN targetSchemas)

\* The second loop, over the target map, without its exists check.
extraTablesUnchecked(order, sourceSchemas) == order

\* The names the second loop appends to extraTables, in visiting order.
extraTablesOf(order, sourceSchemas) ==
    SelectSeq(order, LAMBDA tableName : tableName \notin DOMAIN sourceSchemas)

\* All column names of the tables of a schema map.
columnNamesOf(schemas) ==
    UNION {{schemas[t].Columns[k].Name : k \in DOMAIN schemas[t].Columns} :
            t \in DOMAIN schemas}

\* The priority orders a run of compareDatabases may follow in its range
\* loops: over the source map, over the target map and, for every table of
\* both, over the two column maps of compareTableSchema.
IterationOrders(sourceSchemas, targetSchemas) ==
    LET cols == columnNamesOf(sourceSchemas) \cup columnNamesOf(targetSchemas)
        both == DOMAIN sourceSchemas \cap DOMAIN targetSchemas
    IN [src : Perms(DOMAIN sourceSchemas),
        tgt : Perms(DOMAIN targetSchemas),
        col : [both -> [src : Perms(cols), tgt : Perms(cols)]]]

\* A compareDatabases that stores the list of every common table, whatever
\* compareTableSchema's boolean.
compareDatabasesStoringAll(sourceSchemas, targetSchemas, orders) ==
    LET commonTables == commonTablesOf(orders.src, targetSchemas)
    IN [missingTables |-> missingTablesOf(orders.src, targetSchemas),
        extraTables |-> extraTablesOf(orders.tgt, sourceSchemas),
        commonTables |-> commonTables,
        schemaDifferences |->
            [tableName \in Range(commonTables) |->
                compareTableSchema(tableName, sourceSchemas[tableName],
                                   targetSchemas[tableName],
                                   orders.col[tableName].src,
                                   orders.col[tableName].tgt).differences]]

compareDatabases(sourceSchemas, targetSchemas, orders) ==
    LET missingTables == missingTablesOf(orders.src, targetSchemas)
        commonTables == commonTablesOf(orders.src, targetSchemas)
        result(tableName) ==
            compareTableSchema(tableName, sourceSchemas[tableName],
                               targetSchemas[tableName],
                               orders.col[tableName].src, orders.col[tableName].tgt)
        schemaDifferences ==
            [tableName \in {t \in Range(commonTables) : result(t).hasDifferences}
                |-> result(tableName).differences]
        extraTables == extraTablesOf(orders.tgt, sourceSchemas)
    IN [missingTables |-> missingTables, extraTables |-> extraTables,
        commonTables |-> commonTables, schemaDifferences |-> schemaDifferences]

\* --------------------------------------------------------------- contains

contains(slice, item) == \E k \in DOMAIN slice : slice[k] = item

\* ------------------------------------------------------------- GetAdapter

EngineTags == {"mysql", "postgres", "sqlite", "oracle"}

\* A GetAdapter whose default case falls back to MySQL.
GetAdapterWithDefault(tag) ==
    CASE tag = "postgres" -> [adapter |-> "PostgreSQLAdapter", err |-> FALSE]
      [] tag = "sqlite" -> [adapter |-> "SQLiteAdapter", err |-> FALSE]
      [] OTHER -> [adapter |-> "MySQLAdapter", err |-> FALSE]

GetAdapter(tag) ==
    CASE tag = "mysql" -> [adapter |-> "MySQLAdapter", err |-> FALSE]
      [] tag = "postgres" -> [adapter |-> "PostgreSQLAdapter", err |-> FALSE]
      [] tag = "sqlite" -> [adapter |-> "SQLiteAdapter", err |-> FALSE]
      [] OTHER -> [adapter |-> "nil", err |-> TRUE]

\* ------------------------------------------------- the state of a run (main)

VARIABLES
    dbType,              \* os.Args[1], the engine tag the run was started with
    adapter,             \* the adapter GetAdapter returned ("nil": none)
    pc,                  \* the position of main
    exitCode,            \* the status the process exited with (-1: running)
    sourceDB, targetDB,  \* each connection: "none", "open" or "closed"
    sourceTables, targetTables,    \* what GetTableList returned
    sourceSchemas, targetSchemas,  \* what getAllTableSchemas returned
    missingTables, extraTables, commonTables, schemaDifferences,
    summary,             \* the ComparisonSummary
    i,                   \* the index of the row-count loop
    lastPercentReported,
    rowCountCalls,       \* the CompareRowCounts calls made, with their results
    progressOut,         \* the percentages of the "Progress: n%" lines printed
    summaryOut           \* the lines printed under "=== Comparison Summary ==="

mainVars ==
    <<dbType, adapter, pc, exitCode, sourceDB, targetDB, sourceTables, targetTables,
      sourceSchemas, targetSchemas, missingTables, extraTables, commonTables,
      schemaDifferences, summary, i, lastPercentReported, rowCountCalls,
      progressOut, summaryOut>>

\* The empty Go map.
EmptyMap == <<>>

\* The state in which main starts, with one of `tags` as its first argument.
MainInitWith(tags) ==
    /\ dbType \in tags
    /\ adapter = "nil"
    /\ pc = "start"
    /\ exitCode = -1
    /\ sourceDB = "none"
    /\ targetDB = "none"
    /\ sourceTables = <<>>
    /\ targetTables = <<>>
    /\ sourceSchemas = EmptyMap
    /\ targetSchemas = EmptyMap
    /\ missingTables = <<>>
    /\ extraTables = <<>>
    /\ commonTables = <<>>
    /\ schemaDifferences = EmptyMap
    /\ summary = [DifferentTables |-> <<>>, DifferentRowCounts |-> EmptyMap]
    /\ i = 0
    /\ lastPercentReported = -1
    /\ rowCountCalls = <<>>
    /\ progressOut = <<>>
    /\ summaryOut = <<>>

\* The tags of the runs followed to their end: a supported engine (the three
\* adapters answer main alike) and an unsupported one.
RunTags == {"mysql", "oracle"}

MainInit == MainInitWith(RunTags)

\* ------------------------------------------------- the lines of the summary

\* One printed line of the summary.  kind is the text it is printed with;
\* table, source and target, text and n are the values formatted into it.
NoText == Difference("", 0, "", <<>>, <<>>)

Line(kind, tableName, source, target, text, n) ==
    [kind |-> kind, table |-> tableName, source |-> source, target |-> target,
     text |-> text, n |-> n]

\* "- %s (row counts differ: source=%d, target=%d)", in the visiting order of
\* summary.DifferentRowCounts.
rowCountLines(order, DifferentRowCounts) ==
    [k \in 1..Len(order) |->
        Line("row counts differ", order[k], DifferentRowCounts[order[k]].Source,
             DifferentRowCounts[order[k]].Target, NoText, 0)]

\* "- %s (exists in source but not in target)"
missingLines(tables) ==
    [k \in 1..Len(tables) |->
        Line("exists in source but not in target", tables[k], 0, 0, NoText, 0)]

\* "- %s (exists in target but not in source)"
extraLines(tables) ==
    [k \in 1..Len(tables) |->
        Line("exists in target but not in source", tables[k], 0, 0, NoText, 0)]

\* The schema lines of one table, printing the number of all its differences.
schemaOnlyLinesCountingAll(tableName, diffs) ==
    IF Len(diffs) > 0
    THEN <<Line("schema difference", tableName, 0, 0, diffs[1], 0)>>
         \o (IF Len(diffs) > 1
             THEN <<Line("and more differences", 0, 0, 0, NoText, Len(diffs))>>
             ELSE <<>>)
    ELSE <<>>

\* "- %s (%s)" with the first difference, then "  (and %d more differences)".
schemaOnlyLines(tableName, diffs) ==
    IF Len(diffs) > 0
    THEN <<Line("schema difference", tableName, 0, 0, diffs[1], 0)>>
         \o (IF Len(diffs) > 1
             THEN <<Line("and more differences", 0, 0, 0, NoText, Len(diffs) - 1)>>
             ELSE <<>>)
    ELSE <<>>

\* The check of the schema loop, never finding a table reported.
reportedNever(tableName, DifferentRowCounts) == FALSE

\* "Skip if we already reported it for row counts".
reported(tableName, DifferentRowCounts) == tableName \in DOMAIN DifferentRowCounts

RECURSIVE schemaLines(_, _, _)
schemaLines(order, differences, DifferentRowCounts) ==
    IF order = <<>> THEN <<>>
    ELSE (IF reported(Head(order), DifferentRowCounts) THEN <<>>
          ELSE schemaOnlyLines(Head(order), differences[Head(order)]))
         \o schemaLines(Tail(order), differences, DifferentRowCounts)

\* The summary counting only summary.DifferentTables, in its condition and in
\* the number it prints.
summaryLinesOfDifferentTables(sum, missing, extra, differences, rcOrder, sdOrder) ==
    IF Len(sum.DifferentTables) = 0
    THEN <<Line("No differences found", 0, 0, 0, NoText, 0)>>
    ELSE <<Line("Found differences in n tables", 0, 0, 0, NoText,
                Len(sum.DifferentTables))>>
         \o rowCountLines(rcOrder, sum.DifferentRowCounts)
         \o missingLines(missing)
         \o extraLines(extra)
         \o schemaLines(sdOrder, differences, sum.DifferentRowCounts)

\* The lines printed after "=== Comparison Summary ===".  rcOrder and sdOrder
\* are the visiting orders of summary.DifferentRowCounts and schemaDifferences.
summaryLines(sum, missing, extra, differences, rcOrder, sdOrder) ==
    IF /\ Len(sum.DifferentTables) = 0
       /\ Len(extra) = 0
       /\ Cardinality(DOMAIN sum.DifferentRowCounts) = 0
       /\ Len(missing) = 0
    THEN <<Line("No differences found", 0, 0, 0, NoText, 0)>>
    ELSE <<Line("Found differences in n tables", 0, 0, 0, NoText,
                Len(sum.DifferentTables) + Len(extra) + Len(missing))>>
         \o rowCountLines(rcOrder, sum.DifferentRowCounts)
         \o missingLines(missing)
         \o extraLines(extra)
         \o schemaLines(sdOrder, differences, sum.DifferentRowCounts)

\* ---------------------------------------------- the steps of the row-count pass

\* The loop over schemaDifferences that fills summary.DifferentTables.
RECURSIVE addSchemaDifferent(_, _)
addSchemaDifferent(DifferentTables, order) ==
    IF order = <<>> THEN DifferentTables
    ELSE addSchemaDifferent(
            IF ~contains(DifferentTables, Head(order))
            THEN Append(DifferentTables, Head(order))
            ELSE DifferentTables,
            Tail(order))

currentPercent(index, totalTables) == (index * 100) \div totalTables

\* A progress line for every table.
reportsAlways(percent, last) == TRUE

\* "if currentPercent > lastPercentReported"
reportsProgress(percent, last) == percent > last

\* The results CompareRowCounts may return: an error with zero counts, or the
\* two counts.
RowCountResults ==
    {[err |-> TRUE, sourceCount |-> 0, targetCount |-> 0]}
    \cup [err : {FALSE}, sourceCount : RowCountValues, targetCount : RowCountValues]

\* The summary after a mismatch, with the pair stored the wrong way round.
recordRowCountsSwapped(sum, tableName, sourceCount, targetCount) ==
    [DifferentRowCounts |->
        [t \in DOMAIN sum.DifferentRowCounts \cup {tableName} |->
            IF t = tableName THEN [Source |-> targetCount, Target |-> sourceCount]
            ELSE sum.DifferentRowCounts[t]],
     DifferentTables |-> Append(sum.DifferentTables, tableName)]

\* The summary after "if sourceCount != targetCount" was true for tableName.
recordRowCounts(sum, tableName, sourceCount, targetCount) ==
    [DifferentRowCounts |->
        [t \in DOMAIN sum.DifferentRowCounts \cup {tableName} |->
            IF t = tableName THEN [Source |-> sourceCount, Target |-> targetCount]
            ELSE sum.DifferentRowCounts[t]],
     DifferentTables |-> Append(sum.DifferentTables, tableName)]

\* ------------------------------- MySQLAdapter.CompareTableDataByChecksum

\* The largest checksum CHECKSUM TABLE may return.
MaxChecksum == 8

VARIABLES
    ckPc,            \* the position of CompareTableDataByChecksum
    sourceChecksum,  \* the sql.NullInt64 scanned from the source
    targetChecksum,  \* the sql.NullInt64 scanned from the target
    ckReturn         \* what the call returned

ckVars == <<ckPc, sourceChecksum, targetChecksum, ckReturn>>

VARIABLES
    tsPc,        \* the position of a compareTableSchema call
    tsSource,    \* its sourceSchema
    tsTarget,    \* its targetSchema
    tsResult     \* what it returned: hasDifferences and differences

tsVars == <<tsPc, tsSource, tsTarget, tsResult>>

VARIABLES
    pkPc,        \* the position of a primary-key comparison
    pkSource,    \* the PrimaryKeys of the source schema
    pkTarget,    \* the PrimaryKeys of the target schema
    pkResult     \* what compareStringSlices and the primary-key step returned

pkVars == <<pkPc, pkSource, pkTarget, pkResult>>

VARIABLES
    pgPc,            \* the position of PostgreSQLAdapter.CompareTableDataByChecksum
    pgSchema,        \* its schema argument
    pgSourceRows,    \* the rows of the table in the source, in physical order
    pgTargetRows,    \* the rows of the table in the target, in physical order
    sourceHash,      \* the sql.NullString scanned from the source
    targetHash,      \* the sql.NullString scanned from the target
    pgReturn         \* what the call returned

pgVars == <<pgPc, pgSchema, pgSourceRows, pgTargetRows, sourceHash, targetHash, pgReturn>>

VARIABLES
    sqPc,            \* the position of SQLiteAdapter.CompareTableDataByChecksum
    sqSourceRowids,  \* the rowids of the table in the source
    sqTargetRowids,  \* the rowids of the table in the target
    sqQueries,       \* the queries issued so far
    sqDbError,       \* a query was answered with an error by the database
    sqReturn         \* what the call returned

sqVars == <<sqPc, sqSourceRowids, sqTargetRowids, sqQueries, sqDbError, sqReturn>>

VARIABLES
    ixPc,            \* the position of a compareIndexes / compareForeignKeys call
    sourceIndexes, targetIndexes,  \* the arguments of compareIndexes
    sourceFKs, targetFKs,          \* the arguments of compareForeignKeys
    ixNotices,       \* the lines the call printed
    ixReturn         \* the boolean the call returned

ixVars == <<ixPc, sourceIndexes, targetIndexes, sourceFKs, targetFKs, ixNotices, ixReturn>>

VARIABLES
    diPc,            \* the position of main around its GetDatabaseInfo calls
    diAdapter,       \* the adapter passed to GetDatabaseInfo
    diConn,          \* the connection string of each side
    diTables,        \* the tables of the database of each side
    diSize,          \* the size the database of each side reports
    diListFailed,    \* GetTableList inside GetDatabaseInfo fails on that side
    diProbeFailed,   \* the database answers the size query with an error
    diInfo,          \* the DatabaseInfo returned for each side
    diErr,           \* the error returned for each side
    diOut            \* what main printed

diVars == <<diPc, diAdapter, diConn, diTables, diSize, diListFailed, diProbeFailed,
            diInfo, diErr, diOut>>

VARIABLES
    exPc,            \* the position of a GetTableSchema call
    exAdapter,       \* the adapter it is called on
    exCatalog,       \* the tables of the database as its catalog has them
    exTable,         \* the tableName argument
    exSchema,        \* the TableSchema returned
    exErr            \* the error returned

exVars == <<exPc, exAdapter, exCatalog, exTable, exSchema, exErr>>

VARIABLES
    cdPc,            \* the position of a compareDatabases call
    cdSource,        \* its sourceSchemas
    cdTarget,        \* its targetSchemas
    cdResult         \* what it returned

cdVars == <<cdPc, cdSource, cdTarget, cdResult>>

\* The variables of the calls that main does not make.
callVars == <<ckVars, tsVars, pkVars, pgVars, sqVars, ixVars, diVars, exVars, cdVars>>

vars == <<mainVars, ckVars, tsVars, pkVars, pgVars, sqVars, ixVars, diVars, exVars, cdVars>>

\* The zero sql.NullInt64, which is also what scanning a NULL leaves.
NullChecksum == [Valid |-> FALSE, Int64 |-> 0]

\* What a CHECKSUM TABLE query may scan without an error.
ScannedChecksums == {NullChecksum} \cup [Valid : {TRUE}, Int64 : 0..MaxChecksum]

NoReturn == [returned |-> FALSE, differs |-> FALSE, err |-> FALSE]

Return(differs, err) == [returned |-> TRUE, differs |-> differs, err |-> err]

\* The decision once both queries succeeded.
mysqlChecksumsDiffer(source, target) ==
    IF ~source.Valid /\ ~target.Valid THEN TRUE
    ELSE IF source.Valid # target.Valid THEN TRUE
    ELSE IF source.Int64 # target.Int64 THEN TRUE
    ELSE FALSE

CkIdle ==
    /\ ckPc = "idle"
    /\ sourceChecksum = NullChecksum
    /\ targetChecksum = NullChecksum
    /\ ckReturn = NoReturn

CkCalled ==
    /\ ckPc = "querySource"
    /\ sourceChecksum = NullChecksum
    /\ targetChecksum = NullChecksum
    /\ ckReturn = NoReturn

\* sourceDB.QueryRow("CHECKSUM TABLE ...").Scan(...)
CkQuerySource ==
    /\ ckPc = "querySource"
    /\ \/ /\ ckPc' = "returned"
          /\ ckReturn' = Return(FALSE, TRUE)
          /\ UNCHANGED sourceChecksum
       \/ \E scanned \in ScannedChecksums :
             /\ sourceChecksum' = scanned
             /\ ckPc' = "queryTarget"
             /\ UNCHANGED ckReturn
    /\ UNCHANGED <<targetChecksum, mainVars, tsVars, pkVars,
                   pgVars, sqVars, ixVars, diVars, exVars, cdVars>>

\* targetDB.QueryRow("CHECKSUM TABLE ...").Scan(...), then the decision.
CkQueryTarget ==
    /\ ckPc = "queryTarget"
    /\ ckPc' = "returned"
    /\ \/ /\ ckReturn' = Return(FALSE, TRUE)
          /\ UNCHANGED targetChecksum
       \/ \E scanned \in ScannedChecksums :
             /\ targetChecksum' = scanned
             /\ ckReturn' = Return(mysqlChecksumsDiffer(sourceChecksum, scanned), FALSE)
    /\ UNCHANGED <<sourceChecksum, mainVars, tsVars, pkVars,
                   pgVars, sqVars, ixVars, diVars, exVars, cdVars>>

CkNext == CkQuerySource \/ CkQueryTarget

\* ------------------------------------- one call of compareTableSchema

\* The number of column names a table draws its columns from.
MaxColumns == 2

ColumnNamePool == <<"id", "name", "email", "age", "city">>

ColumnNames == {ColumnNamePool[k] : k \in 1..MaxColumns}

DataTypes == {"int", "text"}

NullableMarkers == {"YES", "NO"}

\* The table both schemas of a call describe.
CallTable == "users"

\* The columns of a table whose column names are `names`: the names in the
\* order of the pool, each with a data type and a nullable marker, the columns
\* of the primary key marked PRI.
RECURSIVE ColumnLists(_, _, _)
ColumnLists(k, names, primaryKeys) ==
    IF k > Len(ColumnNamePool) THEN {<<>>}
    ELSE LET rest == ColumnLists(k + 1, names, primaryKeys)
             name == ColumnNamePool[k]
             key == IF name \in Range(primaryKeys) THEN "PRI" ELSE ""
         IN IF name \notin names THEN rest
            ELSE {<<ColumnSchema(name, dataType, nullable, key)>> \o r :
                    dataType \in DataTypes, nullable \in NullableMarkers, r \in rest}

\* The primary key of such a table: none, or its first column.
PrimaryKeyLists(names) ==
    {<<>>} \cup {<<ColumnNamePool[k]>> : k \in {j \in 1..Len(ColumnNamePool) :
                    /\ ColumnNamePool[j] \in names
                    /\ \A h \in 1..(j - 1) : ColumnNamePool[h] \notin names}}

\* The schemas GetTableSchema may return for the table.
ExtractedSchemas ==
    UNION {UNION {{TableSchema(CallTable, columns, primaryKeys) :
                      columns \in ColumnLists(1, names, primaryKeys)} :
                  primaryKeys \in PrimaryKeyLists(names)} :
           names \in SUBSET ColumnNames}

NoSchema == TableSchema(CallTable, <<>>, <<>>)

NoSchemaResult == [hasDifferences |-> FALSE, differences |-> <<>>]

TsIdle ==
    /\ tsPc = "idle"
    /\ tsSource = NoSchema
    /\ tsTarget = NoSchema
    /\ tsResult = NoSchemaResult

TsCalled ==
    /\ tsPc = "called"
    /\ tsSource \in ExtractedSchemas
    /\ tsTarget \in ExtractedSchemas
    /\ tsResult = NoSchemaResult

\* compareTableSchema(tableName, sourceSchema, targetSchema), its two range
\* loops following any order.
CompareTableSchemaCall ==
    /\ tsPc = "called"
    /\ tsPc' = "returned"
    /\ \E srcOrder \in Perms(DOMAIN columnMap(tsSource.Columns)),
          tgtOrder \in Perms(DOMAIN columnMap(tsTarget.Columns)) :
          tsResult' = compareTableSchema(CallTable, tsSource, tsTarget,
                                         srcOrder, tgtOrder)
    /\ UNCHANGED <<tsSource, tsTarget, mainVars, ckVars, pkVars,
                   pgVars, sqVars, ixVars, diVars, exVars, cdVars>>

\* ------------------------------------ one comparison of primary-key lists

\* The longest primary-key list compared.
MaxKeys == 3

RECURSIVE KeyListsOfLength(_)
KeyListsOfLength(n) ==
    IF n = 0 THEN {<<>>}
    ELSE {<<name>> \o r : name \in ColumnNames, r \in KeyListsOfLength(n - 1)}

\* Every list of column names up to the bound, repeated names included.
KeyLists == UNION {KeyListsOfLength(n) : n \in 0..MaxKeys}

NoKeyResult == [equal |-> FALSE, differences |-> <<>>]

PkIdle ==
    /\ pkPc = "idle"
    /\ pkSource = <<>>
    /\ pkTarget = <<>>
    /\ pkResult = NoKeyResult

PkCalled ==
    /\ pkPc = "called"
    /\ pkSource \in KeyLists
    /\ pkTarget \in KeyLists
    /\ pkResult = NoKeyResult

\* compareStringSlices on the two lists, and compareTableSchema on two
\* schemas that have these primary keys and no column.
ComparePrimaryKeys ==
    /\ pkPc = "called"
    /\ pkPc' = "returned"
    /\ pkResult' =
          [equal |-> compareStringSlices(pkSource, pkTarget),
           differences |->
              compareTableSchema(CallTable,
                                 TableSchema(CallTable, <<>>, pkSource),
                                 TableSchema(CallTable, <<>>, pkTarget),
                                 <<>>, <<>>).differences]
    /\ UNCHANGED <<pkSource, pkTarget, mainVars, ckVars, tsVars,
                   pgVars, sqVars, ixVars, diVars, exVars, cdVars>>

\* ------------------------ the calls below, when they are not being made

\* The zero sql.NullString, which is also what scanning a NULL leaves.
NullHash == [Valid |-> FALSE, String |-> 0]

PgIdle ==
    /\ pgPc = "idle"
    /\ pgSchema = NoSchema
    /\ pgSourceRows = <<>>
    /\ pgTargetRows = <<>>
    /\ sourceHash = NullHash
    /\ targetHash = NullHash
    /\ pgReturn = NoReturn

SqIdle ==
    /\ sqPc = "idle"
    /\ sqSourceRowids = {}
    /\ sqTargetRowids = {}
    /\ sqQueries = <<>>
    /\ sqDbError = FALSE
    /\ sqReturn = NoReturn

IxIdle ==
    /\ ixPc = "idle"
    /\ sourceIndexes = <<>>
    /\ targetIndexes = <<>>
    /\ sourceFKs = <<>>
    /\ targetFKs = <<>>
    /\ ixNotices = {}
    /\ ixReturn = FALSE

\* The source and the target database of a run.
Sides == {"source", "target"}

\* The zero DatabaseInfo.
NoInfo == [Host |-> <<>>, DatabaseName |-> <<>>, TableCount |-> 0, TotalSize |-> 0]

DiIdle ==
    /\ diPc = "idle"
    /\ diAdapter = "nil"
    /\ diConn = [side \in Sides |-> <<>>]
    /\ diTables = [side \in Sides |-> <<>>]
    /\ diSize = [side \in Sides |-> 0]
    /\ diListFailed = [side \in Sides |-> FALSE]
    /\ diProbeFailed = [side \in Sides |-> FALSE]
    /\ diInfo = [side \in Sides |-> NoInfo]
    /\ diErr = [side \in Sides |-> FALSE]
    /\ diOut = <<>>

ExIdle ==
    /\ exPc = "idle"
    /\ exAdapter = "nil"
    /\ exCatalog = <<>>
    /\ exTable = CallTable
    /\ exSchema = NoSchema
    /\ exErr = FALSE

NoComparison ==
    [missingTables |-> <<>>, extraTables |-> <<>>, commonTables |-> <<>>,
     schemaDifferences |-> EmptyMap]

CdIdle ==
    /\ cdPc = "idle"
    /\ cdSource = EmptyMap
    /\ cdTarget = EmptyMap
    /\ cdResult = NoComparison

\* --------------- one call of PostgreSQLAdapter.CompareTableDataByChecksum

\* The largest number of rows of the table on either side.
MaxRows == 2

\* The columns of the table, and the values a row may hold in each of them.
\* A row is the sequence of its values, in the order of the columns.
PgColumns == <<"id", "name">>

RowValues == {0, 1}

PgRows == [DOMAIN PgColumns -> RowValues]

RECURSIVE RowListsOfLength(_)
RowListsOfLength(n) ==
    IF n = 0 THEN {<<>>}
    ELSE {<<row>> \o r : row \in PgRows, r \in RowListsOfLength(n - 1)}

\* The contents a table may have: its rows in their physical order.
PgTables == UNION {RowListsOfLength(n) : n \in 0..MaxRows}

\* The schemas the call may be given for the table: with a primary key of one
\* or of both columns, without primary key, and the schema of no column.
PgSchemas ==
    {TableSchema(CallTable,
                 [k \in DOMAIN PgColumns |->
                     ColumnSchema(PgColumns[k], "int", "NO",
                                  IF PgColumns[k] \in Range(primaryKeys) THEN "PRI" ELSE "")],
                 primaryKeys) :
        primaryKeys \in {<<>>, <<"id">>, <<"id", "name">>}}
    \cup {NoSchema}

\* The ORDER BY clause falling back to the first column only.
getOrderByClauseFirstColumn(schema) ==
    IF Len(schema.PrimaryKeys) > 0
    THEN schema.PrimaryKeys
    ELSE [k \in DOMAIN schema.Columns \cap {1} |-> schema.Columns[k].Name]

\* The ORDER BY clause, as the list of the columns it names (each is quoted
\* and the list joined with ", " in the query text).
getOrderByClause(schema) ==
    IF Len(schema.PrimaryKeys) > 0
    THEN schema.PrimaryKeys
    ELSE [k \in DOMAIN schema.Columns |-> schema.Columns[k].Name]

\* The values of a row in the columns of an ORDER BY clause.
SortKey(row, clause) ==
    [k \in DOMAIN clause |->
        row[CHOOSE c \in DOMAIN PgColumns : PgColumns[c] = clause[k]]]

\* Sort key a comes strictly before sort key b.
KeyBefore(a, b) ==
    \E k \in DOMAIN a :
        /\ a[k] < b[k]
        /\ \A j \in 1..(k - 1) : a[j] = b[j]

\* No two rows agree on the columns of the primary key, if there is one.
UniqueOn(rows, primaryKeys) ==
    \A m, n \in DOMAIN rows :
        m # n /\ primaryKeys # <<>> => SortKey(rows[m], primaryKeys) # SortKey(rows[n], primaryKeys)

\* array_agg(t.* ORDER BY clause): the rows in any order that the clause
\* allows; rows with equal sort keys may come in either order.
OrderedBy(rows, clause) ==
    {r \in {[k \in DOMAIN rows |-> rows[p[k]]] : p \in Perms(DOMAIN rows)} :
        \A m, n \in DOMAIN r :
            m < n => ~KeyBefore(SortKey(r[n], clause), SortKey(r[m], clause))}

\* The text of a row, as a number.
RECURSIVE RowText(_)
RowText(row) ==
    IF row = <<>> THEN 0
    ELSE RowText(SubSeq(row, 1, Len(row) - 1)) * Cardinality(RowValues)
         + row[Len(row)]

\* MD5 of the text of an array of rows: a digest of the rows in their order.
RECURSIVE md5(_)
md5(rows) ==
    IF rows = <<>> THEN 1
    ELSE (md5(SubSeq(rows, 1, Len(rows) - 1)) * 31
          + RowText(rows[Len(rows)]) + 1) % 1009

\* What the hash query may scan without an error: NULL for an empty table
\* (array_agg of no row), else the digest of the ordered rows.
ScannedHashes(rows, clause) ==
    IF rows = <<>> THEN {NullHash}
    ELSE {[Valid |-> TRUE, String |-> md5(r)] : r \in OrderedBy(rows, clause)}

\* The decision once both queries succeeded.
postgresHashesDiffer(source, target) ==
    IF ~source.Valid /\ ~target.Valid THEN FALSE
    ELSE IF source.Valid # target.Valid THEN TRUE
    ELSE IF source.String # target.String THEN TRUE
    ELSE FALSE

PgCalled ==
    /\ pgPc = "querySource"
    /\ pgSchema \in PgSchemas
    /\ pgSourceRows \in PgTables
    /\ UniqueOn(pgSourceRows, pgSchema.PrimaryKeys)
    /\ pgTargetRows \in PgTables
    /\ sourceHash = NullHash
    /\ targetHash = NullHash
    /\ pgReturn = NoReturn

\* sourceDB.QueryRow(query).Scan(&sourceHash); a query with an empty ORDER BY
\* clause is refused.
PgQuerySource ==
    /\ pgPc = "querySource"
    /\ \/ /\ pgPc' = "returned"
          /\ pgReturn' = Return(FALSE, TRUE)
          /\ UNCHANGED sourceHash
       \/ /\ getOrderByClause(pgSchema) # <<>>
          /\ \E scanned \in ScannedHashes(pgSourceRows, getOrderByClause(pgSchema)) :
                sourceHash' = scanned
          /\ pgPc' = "queryTarget"
          /\ UNCHANGED pgReturn
    /\ UNCHANGED <<pgSchema, pgSourceRows, pgTargetRows, targetHash, mainVars, ckVars,
                   tsVars, pkVars, sqVars, ixVars, diVars, exVars, cdVars>>

\* targetDB.QueryRow(query).Scan(&targetHash), then the decision.
PgQueryTarget ==
    /\ pgPc = "queryTarget"
    /\ pgPc' = "returned"
    /\ \/ /\ pgReturn' = Return(FALSE, TRUE)
          /\ UNCHANGED targetHash
       \/ \E scanned \in ScannedHashes(pgTargetRows, getOrderByClause(pgSchema)) :
             /\ targetHash' = scanned
             /\ pgReturn' = Return(postgresHashesDiffer(sourceHash, scanned), FALSE)
    /\ UNCHANGED <<pgSchema, pgSourceRows, pgTargetRows, sourceHash, mainVars, ckVars,
                   tsVars, pkVars, sqVars, ixVars, diVars, exVars, cdVars>>

PgNext == PgQuerySource \/ PgQueryTarget

\* ------------------ one call of SQLiteAdapter.CompareTableDataByChecksum

\* The rowids a row of the table may have.
RowidPool == {1, 2, 3, 4, 999999, 1000000}

RECURSIVE SetSum(_)
SetSum(S) ==
    IF S = {} THEN 0
    ELSE LET x == CHOOSE y \in S : TRUE IN x + SetSum(S \ {x})

\* SELECT total(rowid): the sum of the rowids, a REAL (0.0 for no row).
totalRowid(rowids) == SetSum(rowids)

\* Scan of a REAL into an int64: database/sql formats the float64 with
\* strconv.FormatFloat(f, 'g', -1, 64) and parses the text with ParseInt, so
\* a value printed with an exponent ("1e+06", from 1000000 on) is an error.
scanInt64(real) ==
    IF real >= 1000000
    THEN [err |-> TRUE, value |-> 0]
    ELSE [err |-> FALSE, value |-> real]

SqCalled ==
    /\ sqPc = "countRows"
    /\ sqSourceRowids \in SUBSET RowidPool
    /\ sqTargetRowids \in SUBSET RowidPool
    /\ sqQueries = <<>>
    /\ sqDbError = FALSE
    /\ sqReturn = NoReturn

\* a.CompareRowCounts and the comparison of the two counts.
SqCountRows ==
    /\ sqPc = "countRows"
    /\ \/ /\ sqQueries' = <<"count source">>
          /\ sqDbError' = TRUE
          /\ sqReturn' = Return(FALSE, TRUE)
          /\ sqPc' = "returned"
       \/ /\ sqQueries' = <<"count source", "count target">>
          /\ sqDbError' = TRUE
          /\ sqReturn' = Return(FALSE, TRUE)
          /\ sqPc' = "returned"
       \/ /\ sqQueries' = <<"count source", "count target">>
          /\ UNCHANGED sqDbError
          /\ IF Cardinality(sqSourceRowids) # Cardinality(sqTargetRowids)
             THEN sqReturn' = Return(TRUE, FALSE) /\ sqPc' = "returned"
             ELSE UNCHANGED sqReturn /\ sqPc' = "sumSource"
    /\ UNCHANGED <<sqSourceRowids, sqTargetRowids, mainVars, ckVars, tsVars, pkVars,
                   pgVars, ixVars, diVars, exVars, cdVars>>

\* sourceDB.QueryRow("SELECT total(rowid) ...").Scan(&sourceSum)
SqSumSource ==
    /\ sqPc = "sumSource"
    /\ sqQueries' = Append(sqQueries, "total source")
    /\ \/ /\ sqDbError' = TRUE
          /\ sqReturn' = Return(FALSE, TRUE)
          /\ sqPc' = "returned"
       \/ /\ UNCHANGED sqDbError
          /\ IF scanInt64(totalRowid(sqSourceRowids)).err
             THEN sqReturn' = Return(FALSE, TRUE) /\ sqPc' = "returned"
             ELSE UNCHANGED sqReturn /\ sqPc' = "sumTarget"
    /\ UNCHANGED <<sqSourceRowids, sqTargetRowids, mainVars, ckVars, tsVars, pkVars,
                   pgVars, ixVars, diVars, exVars, cdVars>>

\* targetDB.QueryRow("SELECT total(rowid) ...").Scan(&targetSum), then the
\* comparison of the two sums.
SqSumTarget ==
    /\ sqPc = "sumTarget"
    /\ sqPc' = "returned"
    /\ sqQueries' = Append(sqQueries, "total target")
    /\ \/ /\ sqDbError' = TRUE
          /\ sqReturn' = Return(FALSE, TRUE)
       \/ /\ UNCHANGED sqDbError
          /\ LET sourceSum == scanInt64(totalRowid(sqSourceRowids))
                 targetSum == scanInt64(totalRowid(sqTargetRowids))
             IN IF targetSum.err
                THEN sqReturn' = Return(FALSE, TRUE)
                ELSE sqReturn' = Return(sourceSum.value # targetSum.value, FALSE)
    /\ UNCHANGED <<sqSourceRowids, sqTargetRowids, mainVars, ckVars, tsVars, pkVars,
                   pgVars, ixVars, diVars, exVars, cdVars>>

SqNext == SqCountRows \/ SqSumSource \/ SqSumTarget

\* ----------------- one call of compareIndexes or of compareForeignKeys

\* The longest index list and foreign-key list compared.
MaxIndexes == 2

IndexSchema(name, columnName, nonUnique) ==
    [Name |-> name, ColumnName |-> columnName, NonUnique |-> nonUnique]

\* A string, where its characters matter, is the sequence of them.
ForeignKeySchema(name, columnName, referencedTable, referencedColumn) ==
    [Name |-> name, ColumnName |-> columnName,
     ReferencedTable |-> referencedTable, ReferencedColumn |-> referencedColumn]

IndexPool ==
    <<IndexSchema("idx_a", "id", 0), IndexSchema("idx_a", "id", 1),
      IndexSchema("idx_a", "name", 0), IndexSchema("idx_a", "name", 1),
      IndexSchema("idx_b", "id", 0), IndexSchema("idx_b", "id", 1),
      IndexSchema("idx_b", "name", 0), IndexSchema("idx_b", "name", 1)>>

ForeignKeyPool ==
    <<ForeignKeySchema(<<"f">>, <<"a">>, <<"t">>, <<"i">>),
      ForeignKeySchema(<<"f">>, <<"a">>, <<"u">>, <<"i">>),
      ForeignKeySchema(<<"f">>, <<"a", "_", "b">>, <<"t">>, <<"i">>),
      ForeignKeySchema(<<"f", "_", "a">>, <<"b">>, <<"t">>, <<"i">>)>>

\* The lists of up to MaxIndexes different entries of a pool, in its order.
ListsFrom(pool) ==
    {[k \in 1..Cardinality(S) |-> pool[Ascending(S)[k]]] :
        S \in {T \in SUBSET DOMAIN pool : Cardinality(T) <= MaxIndexes}}

\* sourceIndexMap / targetIndexMap: index name -> column name -> the entry,
\* a later entry of the same name and column overwriting an earlier one.
indexMap(indexes) ==
    [name \in {indexes[k].Name : k \in DOMAIN indexes} |->
        [col \in {indexes[k].ColumnName : k \in {j \in DOMAIN indexes : indexes[j].Name = name}} |->
            indexes[CHOOSE k \in DOMAIN indexes :
                        /\ indexes[k].Name = name
                        /\ indexes[k].ColumnName = col
                        /\ \A j \in DOMAIN indexes :
                              indexes[j].Name = name /\ indexes[j].ColumnName = col
                              => j <= k]]]

\* One printed line of the two functions.
Notice(kind, name, columns, source, target) ==
    [kind |-> kind, name |-> name, columns |-> columns,
     source |-> source, target |-> target]

\* compareIndexes: the flag it returns and the lines it prints (as a set: the
\* range loops print them in any order).  hasDifferences is initialised to
\* false and no statement assigns it.
compareIndexes(tableName, sourceIdxs, targetIdxs) ==
    LET sourceIndexMap == indexMap(sourceIdxs)
        targetIndexMap == indexMap(targetIdxs)
        hasDifferences == FALSE
        sourceOnly ==
            {Notice("index in source only", name, DOMAIN sourceIndexMap[name], FALSE, FALSE) :
                name \in DOMAIN sourceIndexMap \ DOMAIN targetIndexMap}
        columnNotices(name) ==
            {Notice("index column in source only", name, {col}, FALSE, FALSE) :
                col \in DOMAIN sourceIndexMap[name] \ DOMAIN targetIndexMap[name]}
            \cup
            {Notice("different uniqueness", name, {col},
                    sourceIndexMap[name][col].NonUnique = 0,
                    targetIndexMap[name][col].NonUnique = 0) :
                col \in {c \in DOMAIN sourceIndexMap[name] \cap DOMAIN targetIndexMap[name] :
                            sourceIndexMap[name][c].NonUnique
                                # targetIndexMap[name][c].NonUnique}}
            \cup
            {Notice("index column in target only", name, {col}, FALSE, FALSE) :
                col \in DOMAIN targetIndexMap[name] \ DOMAIN sourceIndexMap[name]}
        targetOnly ==
            {Notice("index in target only", name, DOMAIN targetIndexMap[name], FALSE, FALSE) :
                name \in DOMAIN targetIndexMap \ DOMAIN sourceIndexMap}
    IN [hasDifferences |-> hasDifferences,
        notices |-> sourceOnly
                    \cup UNION {columnNotices(name) :
                                  name \in DOMAIN sourceIndexMap \cap DOMAIN targetIndexMap}
                    \cup targetOnly]

\* fmt.Sprintf("%s_%s_%s_%s", ...): the four strings joined with "_".
foreignKeyKey(fk) ==
    fk.Name \o <<"_">> \o fk.ColumnName \o <<"_">> \o fk.ReferencedTable
    \o <<"_">> \o fk.ReferencedColumn

\* sourceFKMap / targetFKMap: composite key -> the last entry with that key.
foreignKeyMap(fks) ==
    [key \in {foreignKeyKey(fks[k]) : k \in DOMAIN fks} |->
        fks[CHOOSE k \in DOMAIN fks :
                /\ foreignKeyKey(fks[k]) = key
                /\ \A j \in DOMAIN fks : foreignKeyKey(fks[j]) = key => j <= k]]

\* compareForeignKeys: the flag it returns and the lines it prints.
\* hasDifferences is initialised to false and no statement assigns it.
compareForeignKeys(tableName, sourceFKList, targetFKList) ==
    LET sourceFKMap == foreignKeyMap(sourceFKList)
        targetFKMap == foreignKeyMap(targetFKList)
        hasDifferences == FALSE
    IN [hasDifferences |-> hasDifferences,
        notices |->
            {Notice("foreign key in source only", sourceFKMap[key].Name,
                    {sourceFKMap[key].ColumnName}, FALSE, FALSE) :
                key \in DOMAIN sourceFKMap \ DOMAIN targetFKMap}
            \cup
            {Notice("foreign key in target only", targetFKMap[key].Name,
                    {targetFKMap[key].ColumnName}, FALSE, FALSE) :
                key \in DOMAIN targetFKMap \ DOMAIN sourceFKMap}]

\* A call of one of the two functions is about to be made.
IxCalled ==
    /\ ixNotices = {}
    /\ ixReturn = FALSE
    /\ \/ /\ ixPc = "compareIndexes"
          /\ sourceIndexes \in ListsFrom(IndexPool)
          /\ targetIndexes \in ListsFrom(IndexPool)
          /\ sourceFKs = <<>>
          /\ targetFKs = <<>>
       \/ /\ ixPc = "compareForeignKeys"
          /\ sourceIndexes = <<>>
          /\ targetIndexes = <<>>
          /\ sourceFKs \in ListsFrom(ForeignKeyPool)
          /\ targetFKs \in ListsFrom(ForeignKeyPool)

CompareIndexesCall ==
    /\ ixPc = "compareIndexes"
    /\ ixPc' = "indexes compared"
    /\ LET r == compareIndexes(CallTable, sourceIndexes, targetIndexes)
       IN ixReturn' = r.hasDifferences /\ ixNotices' = r.notices
    /\ UNCHANGED <<sourceIndexes, targetIndexes, sourceFKs, targetFKs, mainVars,
                   ckVars, tsVars, pkVars, pgVars, sqVars, diVars, exVars, cdVars>>

CompareForeignKeysCall ==
    /\ ixPc = "compareForeignKeys"
    /\ ixPc' = "foreign keys compared"
    /\ LET r == compareForeignKeys(CallTable, sourceFKs, targetFKs)
       IN ixReturn' = r.hasDifferences /\ ixNotices' = r.notices
    /\ UNCHANGED <<sourceIndexes, targetIndexes, sourceFKs, targetFKs, mainVars,
                   ckVars, tsVars, pkVars, pgVars, sqVars, diVars, exVars, cdVars>>

IxNext == CompareIndexesCall \/ CompareForeignKeysCall

\* ------------------------- main collecting the database information

\* A connection string is the sequence of its parts, "@", "/" and "?" being
\* the separators GetDatabaseInfo splits it on.
ConnectionStrings(a) ==
    IF a = "SQLiteAdapter"
    THEN {<<"data.db">>}
    ELSE {<<"user:pw", "@", "tcp(host)", "/", "shop", "?", "opts">>,
          <<"user:pw", "@", "host">>}

InfoTableLists == {<<>>, <<"orders">>, <<"orders", "users">>}

InfoSizes == {512, 2048}

\* strings.Contains for one separator.
Contains(s, sep) == \E j \in DOMAIN s : s[j] = sep

\* strings.Split.
RECURSIVE Split(_, _)
Split(s, sep) ==
    IF Contains(s, sep)
    THEN LET first == CHOOSE j \in DOMAIN s :
                          s[j] = sep /\ \A k \in 1..(j - 1) : s[k] # sep
         IN <<SubSeq(s, 1, first - 1)>> \o Split(SubSeq(s, first + 1, Len(s)), sep)
    ELSE <<s>>

\* The size query scanned into an int64.  MySQL's SUM over the tables of a
\* database without tables is NULL, which Scan refuses.
sizeProbe(a, tables, size, failed) ==
    IF failed \/ (a = "MySQLAdapter" /\ tables = <<>>)
    THEN [err |-> TRUE, size |-> 0]
    ELSE [err |-> FALSE, size |-> size]

\* GetDatabaseInfo: host and database name from the connection string, the
\* table count, and the size when the size query succeeds.
GetDatabaseInfo(a, connectionString, tables, size, listFailed, probeFailed) ==
    LET parts == Split(connectionString, "@")
        hostPart == Split(parts[2], "/")
        named ==
            IF Contains(connectionString, "@")
            THEN IF Len(parts) > 1
                 THEN [NoInfo EXCEPT
                         !.Host = hostPart[1],
                         !.DatabaseName = IF Len(hostPart) > 1
                                          THEN Split(hostPart[2], "?")[1]
                                          ELSE <<>>]
                 ELSE NoInfo
            ELSE [NoInfo EXCEPT !.Host = <<"local">>,
                                !.DatabaseName = connectionString]
        probe == sizeProbe(a, tables, size, probeFailed)
    IN IF listFailed
       THEN [info |-> named, err |-> TRUE]
       ELSE [info |-> [named EXCEPT
                         !.TableCount = Len(tables),
                         !.TotalSize = IF a \in {"MySQLAdapter", "PostgreSQLAdapter",
                                                 "SQLiteAdapter"} /\ ~probe.err
                                       THEN probe.size
                                       ELSE 0],
             err |-> FALSE]

\* formatSize: the number printed (whole part and hundredths) and its unit.
formatSize(bytes) ==
    LET scaled(unit) == ((bytes * 200) \div unit + 1) \div 2
    IN CASE bytes >= 1024 * 1024 * 1024 ->
              [whole |-> scaled(1024 * 1024 * 1024) \div 100,
               hundredths |-> scaled(1024 * 1024 * 1024) % 100, unit |-> "GB"]
         [] bytes >= 1024 * 1024 ->
              [whole |-> scaled(1024 * 1024) \div 100,
               hundredths |-> scaled(1024 * 1024) % 100, unit |-> "MB"]
         [] bytes >= 1024 ->
              [whole |-> scaled(1024) \div 100,
               hundredths |-> scaled(1024) % 100, unit |-> "KB"]
         [] OTHER -> [whole |-> bytes, hundredths |-> 0, unit |-> "bytes"]

\* One printed line of this part of main.
InfoLine(kind, side, info) ==
    [kind |-> kind, side |-> side, Host |-> info.Host,
     DatabaseName |-> info.DatabaseName, Tables |-> info.TableCount,
     Size |-> formatSize(info.TotalSize)]

\* main has both schema maps and is about to collect the information.
DiCalled ==
    /\ diPc = "collect source"
    /\ diAdapter \in {"MySQLAdapter", "PostgreSQLAdapter", "SQLiteAdapter"}
    /\ diConn \in [Sides -> ConnectionStrings(diAdapter)]
    /\ diTables \in [Sides -> InfoTableLists]
    /\ diSize \in [Sides -> InfoSizes]
    /\ diListFailed \in [Sides -> BOOLEAN]
    /\ diProbeFailed \in [Sides -> BOOLEAN]
    /\ diInfo = [side \in Sides |-> NoInfo]
    /\ diErr = [side \in Sides |-> FALSE]
    /\ diOut = <<>>

\* One GetDatabaseInfo call of main with the warning that may follow it.
collectInfo(side) ==
    LET r == GetDatabaseInfo(diAdapter, diConn[side], diTables[side], diSize[side],
                             diListFailed[side], diProbeFailed[side])
    IN /\ diInfo' = [diInfo EXCEPT ![side] = r.info]
       /\ diErr' = [diErr EXCEPT ![side] = r.err]
       /\ diOut' = diOut
                   \o (IF side = "source"
                       THEN <<InfoLine("Collecting database information...", "", NoInfo)>>
                       ELSE <<>>)
                   \o (IF r.err
                       THEN <<InfoLine("Warning: couldn't collect full database info",
                                       side, NoInfo)>>
                       ELSE <<>>)

CollectSourceInfo ==
    /\ diPc = "collect source"
    /\ diPc' = "collect target"
    /\ collectInfo("source")
    /\ UNCHANGED <<diAdapter, diConn, diTables, diSize, diListFailed, diProbeFailed,
                   mainVars, ckVars, tsVars, pkVars, pgVars, sqVars, ixVars, exVars,
                   cdVars>>

CollectTargetInfo ==
    /\ diPc = "collect target"
    /\ diPc' = "display"
    /\ collectInfo("target")
    /\ UNCHANGED <<diAdapter, diConn, diTables, diSize, diListFailed, diProbeFailed,
                   mainVars, ckVars, tsVars, pkVars, pgVars, sqVars, ixVars, exVars,
                   cdVars>>

\* The information lines; compareDatabases is what main calls next.
DisplayInfo ==
    /\ diPc = "display"
    /\ diPc' = "compareDatabases"
    /\ diOut' = diOut \o <<InfoLine("=== Database Information ===", "", NoInfo),
                           InfoLine("Source", "source", diInfo["source"]),
                           InfoLine("Target", "target", diInfo["target"])>>
    /\ UNCHANGED <<diAdapter, diConn, diTables, diSize, diListFailed, diProbeFailed,
                   diInfo, diErr, mainVars, ckVars, tsVars, pkVars, pgVars, sqVars,
                   ixVars, exVars, cdVars>>

DiNext == CollectSourceInfo \/ CollectTargetInfo \/ DisplayInfo

\* ------------------------------------------- one call of GetTableSchema

\* The tables a database may hold under names that differ in case only.
RelationNames == {"Users", "users"}

\* One column of a table in the catalog: its name, type, NOT NULL flag and
\* the key it belongs to ("PRI", "UNI" or none).
CatalogColumn(name, key) ==
    [Name |-> name, DataType |-> "int", NotNull |-> (key = "PRI"), Key |-> key]

CatalogKeys == {"PRI", "UNI", ""}

\* The column lists of a table, in ordinal position.
CatalogTables ==
    {<<CatalogColumn("id", k)>> : k \in CatalogKeys}
    \cup {<<CatalogColumn("name", k)>> : k \in CatalogKeys}
    \cup {<<CatalogColumn("id", k), CatalogColumn("name", l)>> :
            k \in CatalogKeys, l \in CatalogKeys}

\* A name the database holds no table under.
NoTable == <<>>

Catalogs == [RelationNames -> CatalogTables \cup {NoTable}]

\* The rows a result set delivers before rows.Next() returns false: all of
\* them, or fewer when the iteration fails, rows.Err() never being looked at.
Prefixes(rows) == {SubSeq(rows, 1, k) : k \in 0..Len(rows)}

\* The indexes of a table: one per key, named after it.
catalogIndexes(rows) ==
    LET keyed == SelectSeq(rows, LAMBDA r : r.Key # "")
    IN [k \in DOMAIN keyed |->
           IndexSchema(IF keyed[k].Key = "PRI" THEN "PRIMARY" ELSE keyed[k].Name,
                       keyed[k].Name, 0)]

ColumnNamesOf(rows) == [k \in DOMAIN rows |-> rows[k].Name]

\* The index and foreign-key queries that end every GetTableSchema, the
\* columns and primary keys being in tableSchema: a query or a Scan fails, or
\* the index rows delivered are appended.
indexesAndForeignKeys(tableSchema, rows) ==
    {[schema |-> [tableSchema EXCEPT !.Indexes = delivered], err |-> e] :
        delivered \in Prefixes(catalogIndexes(rows)), e \in BOOLEAN}

\* A GetTableSchema that stops at the first query.
queryFailed(tableName) ==
    [schema |-> TableSchema(tableName, <<>>, <<>>), err |-> TRUE]

\* MySQLAdapter.GetTableSchema: what it may return.  DESCRIBE gives Key as
\* the catalog has it, and a "PRI" row is appended to PrimaryKeys.
MySQLGetTableSchema(catalog, tableName) ==
    LET built(rows) ==
            TableSchema(tableName,
                [k \in DOMAIN rows |->
                    ColumnSchema(rows[k].Name, rows[k].DataType,
                                 IF rows[k].NotNull THEN "NO" ELSE "YES", rows[k].Key)],
                ColumnNamesOf(SelectSeq(rows, LAMBDA r : r.Key = "PRI")))
    IN {queryFailed(tableName)}
       \cup UNION {{[schema |-> built(rows), err |-> TRUE]}
                   \cup indexesAndForeignKeys(built(rows), catalog[tableName]) :
                       rows \in Prefixes(catalog[tableName])}

\* The inner loop of the primary-key pass: Key becomes "PRI" in the columns
\* named by a primary-key row.
postgresKeyed(columns, primaryKeys) ==
    [k \in DOMAIN columns |->
        IF columns[k].Name \in Range(primaryKeys)
        THEN [columns[k] EXCEPT !.Key = "PRI"]
        ELSE columns[k]]

\* The text-to-regclass cast folds an unquoted name to lower case.
regclass(tableName) == IF tableName = "Users" THEN "users" ELSE tableName

\* PostgreSQLAdapter.GetTableSchema: what it may return.  The columns are
\* those of the table named tableName in information_schema.columns; the
\* primary-key rows are those of the relation $1::regclass names, in no
\* stated order.
PostgreSQLGetTableSchema(catalog, tableName) ==
    LET columnsOf(rows) ==
            [k \in DOMAIN rows |->
                ColumnSchema(rows[k].Name, rows[k].DataType,
                             IF rows[k].NotNull THEN "NO" ELSE "YES", "")]
        relation == catalog[regclass(tableName)]
        keyNames == {relation[k].Name : k \in {j \in DOMAIN relation : relation[j].Key = "PRI"}}
        built(rows, primaryKeys) ==
            TableSchema(tableName, postgresKeyed(columnsOf(rows), primaryKeys),
                        primaryKeys)
    IN {queryFailed(tableName)}
       \cup UNION {
              {[schema |-> built(rows, <<>>), err |-> TRUE]}
              \cup (IF relation = NoTable
                    THEN {}
                    ELSE UNION {{[schema |-> built(rows, primaryKeys), err |-> TRUE]}
                                \cup indexesAndForeignKeys(built(rows, primaryKeys),
                                                           catalog[tableName]) :
                                    primaryKeys \in UNION {Prefixes(order) :
                                                             order \in Perms(keyNames)}}) :
              rows \in Prefixes(catalog[tableName])}

\* SQLiteAdapter.GetTableSchema: what it may return.  PRAGMA table_info gives
\* notnull and pk; a row with pk > 0 gets Key "PRI" and is appended to
\* PrimaryKeys.
SQLiteGetTableSchema(catalog, tableName) ==
    LET built(rows) ==
            TableSchema(tableName,
                [k \in DOMAIN rows |->
                    ColumnSchema(rows[k].Name, rows[k].DataType,
                                 IF ~rows[k].NotNull THEN "YES" ELSE "NO",
                                 IF rows[k].Key = "PRI" THEN "PRI" ELSE "")],
                ColumnNamesOf(SelectSeq(rows, LAMBDA r : r.Key = "PRI")))
    IN {queryFailed(tableName)}
       \cup UNION {{[schema |-> built(rows), err |-> TRUE]}
                   \cup indexesAndForeignKeys(built(rows), catalog[tableName]) :
                       rows \in Prefixes(catalog[tableName])}

\* GetTableSchema is about to be called for a table of the database.
ExCalled ==
    /\ exPc = "called"
    /\ exAdapter \in {"MySQLAdapter", "PostgreSQLAdapter", "SQLiteAdapter"}
    /\ exCatalog \in Catalogs
    /\ exTable \in {t \in RelationNames : exCatalog[t] # NoTable}
    /\ exSchema = NoSchema
    /\ exErr = FALSE

MySQLGetTableSchemaCall ==
    /\ exPc = "called"
    /\ exAdapter = "MySQLAdapter"
    /\ exPc' = "returned"
    /\ \E r \in MySQLGetTableSchema(exCatalog, exTable) :
          exSchema' = r.schema /\ exErr' = r.err
    /\ UNCHANGED <<exAdapter, exCatalog, exTable, mainVars, ckVars, tsVars, pkVars,
                   pgVars, sqVars, ixVars, diVars, cdVars>>

PostgreSQLGetTableSchemaCall ==
    /\ exPc = "called"
    /\ exAdapter = "PostgreSQLAdapter"
    /\ exPc' = "returned"
    /\ \E r \in PostgreSQLGetTableSchema(exCatalog, exTable) :
          exSchema' = r.schema /\ exErr' = r.err
    /\ UNCHANGED <<exAdapter, exCatalog, exTable, mainVars, ckVars, tsVars, pkVars,
                   pgVars, sqVars, ixVars, diVars, cdVars>>

SQLiteGetTableSchemaCall ==
    /\ exPc = "called"
    /\ exAdapter = "SQLiteAdapter"
    /\ exPc' = "returned"
    /\ \E r \in SQLiteGetTableSchema(exCatalog, exTable) :
          exSchema' = r.schema /\ exErr' = r.err
    /\ UNCHANGED <<exAdapter, exCatalog, exTable, mainVars, ckVars, tsVars, pkVars,
                   pgVars, sqVars, ixVars, diVars, cdVars>>

ExNext ==
    MySQLGetTableSchemaCall \/ PostgreSQLGetTableSchemaCall \/ SQLiteGetTableSchemaCall

\* ------------------------------------------------ one call of compareDatabases

\* The table names of the two maps of the call.
CallTables == {1, 2, 3}

\* SchemaC with other data types and nullable markers, and a primary key.
SchemaE(t) ==
    TableSchema(t, <<ColumnSchema("id", "int", "NO", "PRI"),
                     ColumnSchema("name", "int", "NO", "")>>, <<"id">>)

\* What the two maps may hold for table t: its schema on the source and on
\* the target, each as a set that is empty when that side lacks the table.
TableSituations(t) ==
    {[source |-> {}, target |-> {}],
     [source |-> {SchemaA(t)}, target |-> {}],
     [source |-> {}, target |-> {SchemaA(t)}],
     [source |-> {SchemaA(t)}, target |-> {SchemaA(t)}],
     [source |-> {SchemaA(t)}, target |-> {SchemaD(t)}],
     [source |-> {SchemaA(t)}, target |-> {SchemaC(t)}],
     [source |-> {SchemaE(t)}, target |-> {SchemaC(t)}]}

\* The schema map of one side of a choice of situations.
schemaMapOf(situations, side) ==
    [t \in {u \in CallTables : situations[u][side] # {}} |->
        CHOOSE schema \in situations[t][side] : TRUE]

CdCalled ==
    /\ cdPc = "called"
    /\ \E situations \in [CallTables -> UNION {TableSituations(t) : t \in CallTables}] :
          /\ \A t \in CallTables : situations[t] \in TableSituations(t)
          /\ cdSource = schemaMapOf(situations, "source")
          /\ cdTarget = schemaMapOf(situations, "target")
    /\ cdResult = NoComparison

CompareDatabasesCall ==
    /\ cdPc = "called"
    /\ cdPc' = "returned"
    /\ \E orders \in IterationOrders(cdSource, cdTarget) :
          cdResult' = compareDatabases(cdSource, cdTarget, orders)
    /\ UNCHANGED <<cdSource, cdTarget, mainVars, ckVars, tsVars, pkVars, pgVars,
                   sqVars, ixVars, diVars, exVars>>

\* ------------------------------------------------ the initial predicates

\* None of the calls main does not make is under way.
NoCall ==
    /\ CkIdle /\ TsIdle /\ PkIdle /\ PgIdle /\ SqIdle /\ IxIdle /\ DiIdle
    /\ ExIdle /\ CdIdle

PostgresHashInit ==
    /\ MainInitWith({"postgres"})
    /\ CkIdle /\ TsIdle /\ PkIdle /\ PgCalled /\ SqIdle /\ IxIdle /\ DiIdle
    /\ ExIdle /\ CdIdle

PostgresHashSpec == PostgresHashInit /\ [][PgNext]_vars

SQLiteChecksumInit ==
    /\ MainInitWith({"sqlite"})
    /\ CkIdle /\ TsIdle /\ PkIdle /\ PgIdle /\ SqCalled /\ IxIdle /\ DiIdle
    /\ ExIdle /\ CdIdle

SQLiteChecksumSpec == SQLiteChecksumInit /\ [][SqNext]_vars

IndexInit ==
    /\ MainInitWith({"mysql"})
    /\ CkIdle /\ TsIdle /\ PkIdle /\ PgIdle /\ SqIdle /\ IxCalled /\ DiIdle
    /\ ExIdle /\ CdIdle

IndexSpec == IndexInit /\ [][IxNext]_vars

DatabaseInfoInit ==
    /\ MainInitWith({"mysql"})
    /\ CkIdle /\ TsIdle /\ PkIdle /\ PgIdle /\ SqIdle /\ IxIdle /\ DiCalled
    /\ ExIdle /\ CdIdle

DatabaseInfoSpec == DatabaseInfoInit /\ [][DiNext]_vars

ExtractInit ==
    /\ MainInitWith({"mysql"})
    /\ CkIdle /\ TsIdle /\ PkIdle /\ PgIdle /\ SqIdle /\ IxIdle /\ DiIdle
    /\ ExCalled /\ CdIdle

ExtractSpec == ExtractInit /\ [][ExNext]_vars

CompareDatabasesInit ==
    /\ MainInitWith({"mysql"})
    /\ CkIdle /\ TsIdle /\ PkIdle /\ PgIdle /\ SqIdle /\ IxIdle /\ DiIdle
    /\ ExIdle /\ CdCalled

CompareDatabasesSpec == CompareDatabasesInit /\ [][CompareDatabasesCall]_vars

MySQLChecksumInit ==
    /\ MainInitWith({"mysql"})
    /\ CkCalled /\ TsIdle /\ PkIdle /\ PgIdle /\ SqIdle /\ IxIdle /\ DiIdle
    /\ ExIdle /\ CdIdle

MySQLChecksumSpec == MySQLChecksumInit /\ [][CkNext]_vars

TableSchemaInit ==
    /\ MainInitWith({"mysql"})
    /\ CkIdle /\ TsCalled /\ PkIdle /\ PgIdle /\ SqIdle /\ IxIdle /\ DiIdle
    /\ ExIdle /\ CdIdle

TableSchemaSpec == TableSchemaInit /\ [][CompareTableSchemaCall]_vars

PrimaryKeyInit ==
    /\ MainInitWith({"mysql"})
    /\ CkIdle /\ TsIdle /\ PkCalled /\ PgIdle /\ SqIdle /\ IxIdle /\ DiIdle
    /\ ExIdle /\ CdIdle

PrimaryKeySpec == PrimaryKeyInit /\ [][ComparePrimaryKeys]_vars

\* ------------------------------------------------------------------- main

\* log.Fatalf: the message, then os.Exit(1).  The deferred calls do not run.
Fatal ==
    /\ pc' = "exited"
    /\ exitCode' = 1

\* The usage check: fewer than three arguments print the usage and return.
CheckArgs ==
    /\ pc = "start"
    /\ \/ /\ pc' = "exited"
          /\ exitCode' = 0
       \/ /\ pc' = "getAdapter"
          /\ UNCHANGED exitCode
    /\ UNCHANGED <<dbType, adapter, sourceDB, targetDB, sourceTables, targetTables, sourceSchemas,
                   targetSchemas, missingTables, extraTables, commonTables,
                   schemaDifferences, summary, i, lastPercentReported,
                   rowCountCalls, progressOut, summaryOut, callVars>>

SelectAdapter ==
    /\ pc = "getAdapter"
    /\ adapter' = GetAdapter(dbType).adapter
    /\ IF GetAdapter(dbType).err
       THEN Fatal
       ELSE pc' = "connectSource" /\ UNCHANGED exitCode
    /\ UNCHANGED <<dbType, sourceDB, targetDB, sourceTables, targetTables, sourceSchemas,
                   targetSchemas, missingTables, extraTables, commonTables,
                   schemaDifferences, summary, i, lastPercentReported,
                   rowCountCalls, progressOut, summaryOut, callVars>>

ConnectSource ==
    /\ pc = "connectSource"
    /\ \/ Fatal /\ UNCHANGED sourceDB
       \/ /\ sourceDB' = "open"
          /\ pc' = "connectTarget"
          /\ UNCHANGED exitCode
    /\ UNCHANGED <<dbType, adapter, targetDB, sourceTables, targetTables, sourceSchemas,
                   targetSchemas, missingTables, extraTables, commonTables,
                   schemaDifferences, summary, i, lastPercentReported,
                   rowCountCalls, progressOut, summaryOut, callVars>>

ConnectTarget ==
    /\ pc = "connectTarget"
    /\ \/ Fatal /\ UNCHANGED targetDB
       \/ /\ targetDB' = "open"
          /\ pc' = "listSource"
          /\ UNCHANGED exitCode
    /\ UNCHANGED <<dbType, adapter, sourceDB, sourceTables, targetTables, sourceSchemas,
                   targetSchemas, missingTables, extraTables, commonTables,
                   schemaDifferences, summary, i, lastPercentReported,
                   rowCountCalls, progressOut, summaryOut, callVars>>

\* The lists GetTableList may return: the tables of the database, in the
\* order of its catalog (here: ascending).
TableLists == {Ascending(S) : S \in SUBSET TableNames}

ListSourceTables ==
    /\ pc = "listSource"
    /\ \/ Fatal /\ UNCHANGED sourceTables
       \/ \E tables \in TableLists :
             /\ sourceTables' = tables
             /\ pc' = "listTarget"
             /\ UNCHANGED exitCode
    /\ UNCHANGED <<dbType, adapter, sourceDB, targetDB, targetTables, sourceSchemas,
                   targetSchemas, missingTables, extraTables, commonTables,
                   schemaDifferences, summary, i, lastPercentReported,
                   rowCountCalls, progressOut, summaryOut, callVars>>

ListTargetTables ==
    /\ pc = "listTarget"
    /\ \/ Fatal /\ UNCHANGED targetTables
       \/ \E tables \in TableLists :
             /\ targetTables' = tables
             /\ pc' = "schemasSource"
             /\ UNCHANGED exitCode
    /\ UNCHANGED <<dbType, adapter, sourceDB, targetDB, sourceTables, sourceSchemas,
                   targetSchemas, missingTables, extraTables, commonTables,
                   schemaDifferences, summary, i, lastPercentReported,
                   rowCountCalls, progressOut, summaryOut, callVars>>

\* A getAllTableSchemas that returns, with the error, the schemas extracted
\* before the table that failed.
getAllTableSchemasKeepingPartial(tables, extractable) ==
    UNION {{[err |-> TRUE, schemas |-> m] :
              m \in {f \in [{tables[j] : j \in 1..(k - 1)} ->
                              UNION {extractable[t] : t \in Range(tables)}] :
                       \A t \in DOMAIN f : f[t] \in extractable[t]}} :
           k \in DOMAIN tables}
    \cup {[err |-> FALSE, schemas |-> m] :
            m \in {f \in [Range(tables) -> UNION {extractable[t] : t \in Range(tables)}] :
                     \A t \in Range(tables) : f[t] \in extractable[t]}}

\* What getAllTableSchemas may return for a table list: an error and no map
\* when GetTableSchema fails for one of the tables, else the map of all of
\* them.  extractable[t] are the schemas GetTableSchema may return for t.
getAllTableSchemas(tables, extractable) ==
    {[err |-> TRUE, schemas |-> EmptyMap] : t \in Range(tables)}
    \cup {[err |-> FALSE, schemas |-> m] :
            m \in {f \in [Range(tables) -> UNION {extractable[t] : t \in Range(tables)}] :
                     \A t \in Range(tables) : f[t] \in extractable[t]}}

GetSourceSchemas ==
    /\ pc = "schemasSource"
    /\ \E r \in getAllTableSchemas(sourceTables, [t \in TableNames |-> SourceSchemasOf(t)]) :
          IF r.err
          THEN Fatal /\ sourceSchemas' = r.schemas
          ELSE /\ sourceSchemas' = r.schemas
               /\ pc' = "schemasTarget"
               /\ UNCHANGED exitCode
    /\ UNCHANGED <<dbType, adapter, sourceDB, targetDB, sourceTables, targetTables,
                   targetSchemas, missingTables, extraTables, commonTables,
                   schemaDifferences, summary, i, lastPercentReported,
                   rowCountCalls, progressOut, summaryOut, callVars>>

GetTargetSchemas ==
    /\ pc = "schemasTarget"
    /\ \E r \in getAllTableSchemas(targetTables, [t \in TableNames |-> TargetSchemasOf(t)]) :
          IF r.err
          THEN Fatal /\ targetSchemas' = r.schemas
          ELSE /\ targetSchemas' = r.schemas
               /\ pc' = "info"
               /\ UNCHANGED exitCode
    /\ UNCHANGED <<dbType, adapter, sourceDB, targetDB, sourceTables, targetTables,
                   sourceSchemas, missingTables, extraTables, commonTables,
                   schemaDifferences, summary, i, lastPercentReported,
                   rowCountCalls, progressOut, summaryOut, callVars>>

\* The two GetDatabaseInfo calls and the database information printed from
\* them: an error is only a warning, and nothing later reads the information.
CollectInfo ==
    /\ pc = "info"
    /\ pc' = "compare"
    /\ UNCHANGED <<dbType, adapter, exitCode, sourceDB, targetDB, sourceTables, targetTables,
                   sourceSchemas, targetSchemas, missingTables, extraTables,
                   commonTables, schemaDifferences, summary, i,
                   lastPercentReported, rowCountCalls, progressOut, summaryOut,
                   callVars>>

\* compareDatabases, the set-up of the progress tracking and the loop over
\* schemaDifferences.
CompareSchemas ==
    /\ pc = "compare"
    /\ \E orders \in IterationOrders(sourceSchemas, targetSchemas) :
          LET r == compareDatabases(sourceSchemas, targetSchemas, orders)
          IN /\ missingTables' = r.missingTables
             /\ extraTables' = r.extraTables
             /\ commonTables' = r.commonTables
             /\ schemaDifferences' = r.schemaDifferences
             /\ \E sdOrder \in Perms(DOMAIN r.schemaDifferences) :
                   summary' = [summary EXCEPT !.DifferentTables =
                                  addSchemaDifferent(summary.DifferentTables, sdOrder)]
    /\ lastPercentReported' = -1
    /\ i' = 0
    /\ pc' = "rowCounts"
    /\ UNCHANGED <<dbType, adapter, exitCode, sourceDB, targetDB, sourceTables, targetTables,
                   sourceSchemas, targetSchemas, rowCountCalls, progressOut,
                   summaryOut, callVars>>

\* "continue" after a CompareRowCounts error, made fatal.
abortOnRowCountError ==
    /\ Fatal
    /\ UNCHANGED <<summary, i>>

\* "continue" after a CompareRowCounts error.
skipOnRowCountError ==
    /\ i' = i + 1
    /\ UNCHANGED <<summary, pc, exitCode>>

\* One iteration of the loop over commonTables, the adapter returning one of
\* `results`.
RowCountIterationWith(results) ==
    /\ pc = "rowCounts"
    /\ i < Len(commonTables)
    /\ LET tableName == commonTables[i + 1]
           totalTables == Len(commonTables)
           percent == currentPercent(i, totalTables)
       IN /\ IF reportsProgress(percent, lastPercentReported)
             THEN /\ progressOut' = Append(progressOut, percent)
                  /\ lastPercentReported' = percent
             ELSE UNCHANGED <<progressOut, lastPercentReported>>
          /\ \E r \in results :
                /\ rowCountCalls' =
                      Append(rowCountCalls,
                             [table |-> tableName, err |-> r.err,
                              sourceCount |-> r.sourceCount,
                              targetCount |-> r.targetCount])
                /\ IF r.err
                   THEN skipOnRowCountError
                   ELSE /\ summary' =
                              IF r.sourceCount # r.targetCount
                              THEN recordRowCounts(summary, tableName,
                                                   r.sourceCount, r.targetCount)
                              ELSE summary
                        /\ i' = i + 1
                        /\ UNCHANGED <<pc, exitCode>>
    /\ UNCHANGED <<dbType, adapter, sourceDB, targetDB, sourceTables, targetTables,
                   sourceSchemas, targetSchemas, missingTables, extraTables,
                   commonTables, schemaDifferences, summaryOut, callVars>>

RowCountIteration == RowCountIterationWith(RowCountResults)

\* The end of the loop: "Progress: 100%", the summary, and the return from
\* main, on which the deferred targetDB.Close() and sourceDB.Close() run.
FinishRun ==
    /\ pc = "rowCounts"
    /\ i = Len(commonTables)
    /\ progressOut' = Append(progressOut, 100)
    /\ \E rcOrder \in Perms(DOMAIN summary.DifferentRowCounts),
          sdOrder \in Perms(DOMAIN schemaDifferences) :
          summaryOut' = summaryLines(summary, missingTables, extraTables,
                                     schemaDifferences, rcOrder, sdOrder)
    /\ targetDB' = "closed"
    /\ sourceDB' = "closed"
    /\ pc' = "exited"
    /\ exitCode' = 0
    /\ UNCHANGED <<dbType, adapter, sourceTables, targetTables, sourceSchemas, targetSchemas,
                   missingTables, extraTables, commonTables, schemaDifferences,
                   summary, i, lastPercentReported, rowCountCalls, callVars>>

Next ==
    \/ CheckArgs
    \/ SelectAdapter
    \/ ConnectSource
    \/ ConnectTarget
    \/ ListSourceTables
    \/ ListTargetTables
    \/ GetSourceSchemas
    \/ GetTargetSchemas
    \/ CollectInfo
    \/ CompareSchemas
    \/ RowCountIteration
    \/ FinishRun

Init == MainInit /\ NoCall

Spec == Init /\ [][Next]_vars

\* ---------------------------------------- the start of a run, with any tag

\* main from its first line to the return of the second getAllTableSchemas.
StartupNext ==
    \/ CheckArgs
    \/ SelectAdapter
    \/ ConnectSource
    \/ ConnectTarget
    \/ ListSourceTables
    \/ ListTargetTables
    \/ GetSourceSchemas
    \/ GetTargetSchemas

StartupInit == MainInitWith(EngineTags) /\ NoCall

StartupSpec == StartupInit /\ [][StartupNext]_vars

\* ------------------------------------------- the row-count pass, many tables

\* The result of CompareRowCounts on a table with as many rows on both sides.
InSyncResults == {[err |-> FALSE, sourceCount |-> 100, targetCount |-> 100]}

\* The state in which the row-count pass starts when the two databases hold
\* the same n tables with the same schemas.
ProgressMainInit ==
    \E n \in 0..MaxProgressTables :
        /\ dbType = "mysql"
        /\ adapter = GetAdapter("mysql").adapter
        /\ pc = "rowCounts"
        /\ exitCode = -1
        /\ sourceDB = "open"
        /\ targetDB = "open"
        /\ sourceTables = [k \in 1..n |-> k]
        /\ targetTables = [k \in 1..n |-> k]
        /\ sourceSchemas = [t \in 1..n |-> SchemaA(t)]
        /\ targetSchemas = [t \in 1..n |-> SchemaA(t)]
        /\ missingTables = <<>>
        /\ extraTables = <<>>
        /\ commonTables = [k \in 1..n |-> k]
        /\ schemaDifferences = EmptyMap
        /\ summary = [DifferentTables |-> <<>>, DifferentRowCounts |-> EmptyMap]
        /\ i = 0
        /\ lastPercentReported = -1
        /\ rowCountCalls = <<>>
        /\ progressOut = <<>>
        /\ summaryOut = <<>>

RowCountIterationInSync == RowCountIterationWith(InSyncResults)

ProgressNext == RowCountIterationInSync \/ FinishRun

ProgressInit == ProgressMainInit /\ NoCall

ProgressSpec == ProgressInit /\ [][ProgressNext]_vars

\* ------------------------------------------------------------ properties

\* The run went through the row-count pass and the summary, and returned
\* (only that return closes the connections).
Finished == pc = "exited" /\ exitCode = 0 /\ sourceDB = "closed"

\* compareDatabases has returned (the run is in or past the row-count pass).
Compared == pc = "rowCounts" \/ Finished

\* How often x occurs in the sequence s.
Occurrences(s, x) == Cardinality({k \in DOMAIN s : s[k] = x})

\* The tables of the CompareRowCounts calls made so far, in call order.
calledTables == [k \in DOMAIN rowCountCalls |-> rowCountCalls[k].table]

\* C1: compareDatabases returns as missing exactly the keys of source that are
\* not keys of target, as extra exactly the keys of target that are not keys
\* of source, and as common exactly the keys of both (so all three are empty
\* when both maps are empty).
C1_MissingExtraCommonAreTheKeySets ==
    Compared =>
        /\ Range(missingTables) = DOMAIN sourceSchemas \ DOMAIN targetSchemas
        /\ Range(extraTables) = DOMAIN targetSchemas \ DOMAIN sourceSchemas
        /\ Range(commonTables) = DOMAIN sourceSchemas \cap DOMAIN targetSchemas
        /\ (DOMAIN sourceSchemas = {} /\ DOMAIN targetSchemas = {}
                => missingTables = <<>> /\ extraTables = <<>> /\ commonTables = <<>>)

\* compareDatabases has run on maps that give a missing and an extra table.
C1_Witness ==
    /\ Compared
    /\ missingTables # <<>>
    /\ extraTables # <<>>
    /\ DOMAIN sourceSchemas # {}
    /\ DOMAIN targetSchemas # {}

\* C2: every table name of keys(source) \cup keys(target) occurs in exactly one
\* of missing, extra, common and exactly once there, and no other name occurs
\* in any of the three lists.
C2_PartitionExhaustiveAndDisjoint ==
    Compared =>
        /\ \A t \in DOMAIN sourceSchemas \cup DOMAIN targetSchemas :
              Occurrences(missingTables, t) + Occurrences(extraTables, t)
                  + Occurrences(commonTables, t) = 1
        /\ Range(missingTables) \cup Range(extraTables) \cup Range(commonTables)
              \subseteq DOMAIN sourceSchemas \cup DOMAIN targetSchemas

\* compareDatabases has run on maps with a common table and a table of one
\* side only.
C2_Witness ==
    /\ Compared
    /\ commonTables # <<>>
    /\ missingTables \o extraTables # <<>>

\* C3: at the end of the run every table name occurs at most once in
\* summary.DifferentTables.
C3_DifferentTablesHasNoDuplicate ==
    Finished => NoDup(summary.DifferentTables)

\* C4: on every path by which the run terminates after a connection was
\* opened, every opened connection has been closed before the process exits.
C4_ConnectionsClosedAtExit ==
    pc = "exited" => sourceDB # "open" /\ targetDB # "open"

\* C5: a CompareRowCounts failure for one common table does not terminate the
\* run: the table gets no entry in DifferentRowCounts and the pass does not add
\* it to DifferentTables, CompareRowCounts is still called once for every later
\* common table, and the summary is still produced.
C5_RowCountFailureSkipsTheTable ==
    /\ calledTables = SubSeq(commonTables, 1, Len(rowCountCalls))
    /\ \A k \in DOMAIN rowCountCalls :
          rowCountCalls[k].err =>
              LET t == rowCountCalls[k].table
              IN /\ exitCode # 1
                 /\ pc \in {"rowCounts", "exited"}
                 /\ t \notin DOMAIN summary.DifferentRowCounts
                 /\ Occurrences(summary.DifferentTables, t)
                        = (IF t \in DOMAIN schemaDifferences THEN 1 ELSE 0)
                 /\ pc = "exited" =>
                        /\ calledTables = commonTables
                        /\ summaryOut # <<>>

\* The run has finished although CompareRowCounts failed for a table that was
\* not the last one, and the later table's mismatch was recorded.
C5_Witness ==
    /\ Finished
    /\ \E k \in DOMAIN rowCountCalls :
          /\ rowCountCalls[k].err
          /\ k < Len(rowCountCalls)
          /\ rowCountCalls[k + 1].table \in DOMAIN summary.DifferentRowCounts

\* The calls of the pass that succeeded with two different counts.
mismatchCalls ==
    {k \in DOMAIN rowCountCalls :
        ~rowCountCalls[k].err
        /\ rowCountCalls[k].sourceCount # rowCountCalls[k].targetCount}

\* C6: after the row-count pass DifferentRowCounts has an entry for a table
\* exactly when it is a common table for which CompareRowCounts succeeded with
\* sourceCount # targetCount, and the entry is (sourceCount, targetCount).
C6_DifferentRowCountsAreTheMismatches ==
    Finished =>
        /\ DOMAIN summary.DifferentRowCounts
              = {rowCountCalls[k].table : k \in mismatchCalls}
        /\ DOMAIN summary.DifferentRowCounts \subseteq Range(commonTables)
        /\ \A k \in mismatchCalls :
              summary.DifferentRowCounts[rowCountCalls[k].table]
                  = [Source |-> rowCountCalls[k].sourceCount,
                     Target |-> rowCountCalls[k].targetCount]

\* The pass has compared a table with different counts and a table with equal
\* counts.
C6_Witness ==
    /\ Finished
    /\ mismatchCalls # {}
    /\ \E k \in DOMAIN rowCountCalls :
          /\ ~rowCountCalls[k].err
          /\ rowCountCalls[k].sourceCount = rowCountCalls[k].targetCount

\* The kinds of the lines of the four buckets of the summary.
BucketKinds ==
    {"row counts differ", "exists in source but not in target",
     "exists in target but not in source", "schema difference"}

\* C7: in the final summary no table name is reported in more than one of the
\* four buckets, and none twice inside one bucket.
C7_NoTableReportedTwice ==
    Finished =>
        \A a, b \in DOMAIN summaryOut :
            /\ a # b
            /\ summaryOut[a].kind \in BucketKinds
            /\ summaryOut[b].kind \in BucketKinds
            => summaryOut[a].table # summaryOut[b].table

\* The summary was printed for a table that has both schema differences and a
\* row-count mismatch.
C7_Witness ==
    /\ Finished
    /\ DOMAIN schemaDifferences \cap DOMAIN summary.DifferentRowCounts # {}

\* The place of a line's bucket in the order of the summary.
BucketRank(kind) ==
    CASE kind = "row counts differ" -> 1
      [] kind = "exists in source but not in target" -> 2
      [] kind = "exists in target but not in source" -> 3
      [] kind = "schema difference" -> 4
      [] kind = "and more differences" -> 4
      [] OTHER -> 0

\* C8: in the summary all row-count lines come before all missing-table lines,
\* these before all extra-table lines, these before all schema-only lines; a
\* schema-only table is printed with its first difference only, followed by a
\* count of its remaining differences when it has more than one.
C8_SummaryOrderAndFirstDifference ==
    Finished =>
        /\ \A a, b \in DOMAIN summaryOut :
              a < b => BucketRank(summaryOut[a].kind) <= BucketRank(summaryOut[b].kind)
        /\ \A a \in DOMAIN summaryOut :
              summaryOut[a].kind = "schema difference" =>
                  LET diffs == schemaDifferences[summaryOut[a].table]
                      more == /\ a + 1 \in DOMAIN summaryOut
                              /\ summaryOut[a + 1].kind = "and more differences"
                  IN /\ summaryOut[a].text = diffs[1]
                     /\ more <=> Len(diffs) > 1
                     /\ more => summaryOut[a + 1].n = Len(diffs) - 1
        /\ \A a \in DOMAIN summaryOut :
              summaryOut[a].kind = "and more differences" =>
                  /\ a - 1 \in DOMAIN summaryOut
                  /\ summaryOut[a - 1].kind = "schema difference"

\* The summary has a row-count line and, later, a schema-only table with more
\* than one difference.
C8_Witness ==
    /\ Finished
    /\ \E a, b \in DOMAIN summaryOut :
          /\ summaryOut[a].kind = "row counts differ"
          /\ summaryOut[b].kind = "and more differences"

\* C9: the progress percentages of the row-count pass are strictly increasing
\* (none is emitted twice), and a run that reaches the pass ends it with
\* exactly one 100% line, whatever the number of common tables.
C9_ProgressIncreasesAndEndsWith100 ==
    /\ \A a, b \in DOMAIN progressOut : a < b => progressOut[a] < progressOut[b]
    /\ Finished =>
          /\ progressOut # <<>>
          /\ progressOut[Len(progressOut)] = 100
          /\ Occurrences(progressOut, 100) = 1

\* A pass over more than a hundred tables has ended: some table's percentage
\* was not above the last one reported.
C9_Witness ==
    /\ Finished
    /\ Len(commonTables) > 100
    /\ Len(progressOut) < Len(commonTables) + 1

\* C10: MySQL CompareTableDataByChecksum: when both checksum queries succeed
\* and neither side returns a valid checksum, the result is Differs = false
\* with no error.
C10_NoValidChecksumAssumesEqual ==
    /\ ckPc = "returned"
    /\ ~ckReturn.err
    /\ ~sourceChecksum.Valid
    /\ ~targetChecksum.Valid
    => ckReturn.differs = FALSE

\* C11: in the top-level run CompareTableDataByChecksum is exercised for each
\* common table, so a finished run that had a common table has made and
\* completed a checksum comparison.
C11_ChecksumExercisedForCommonTables ==
    Finished /\ commonTables # <<>> => ckPc = "returned" /\ ckReturn.returned

\* The place of x in the sequence s.
PositionIn(s, x) == CHOOSE k \in DOMAIN s : s[k] = x

\* C12: the row-count pass visits the common tables in the order of the source
\* table list: of two CompareRowCounts calls, the earlier one is for the table
\* that comes first in what GetTableList returned for the source.
C12_RowCountPassInSourceListOrder ==
    \A a, b \in DOMAIN rowCountCalls :
        a < b => PositionIn(sourceTables, rowCountCalls[a].table)
                    < PositionIn(sourceTables, rowCountCalls[b].table)

\* The two schemas have the same columns: names, data types, nullable markers.
SameColumns(s, t) ==
    /\ Len(s.Columns) = Len(t.Columns)
    /\ \A k \in DOMAIN s.Columns :
          /\ s.Columns[k].Name = t.Columns[k].Name
          /\ s.Columns[k].DataType = t.Columns[k].DataType
          /\ s.Columns[k].Nullable = t.Columns[k].Nullable

\* C13: for two schemas with the same columns and the same primary-key list
\* (a schema and itself in particular) compareTableSchema returns
\* hasDifferences = false and an empty difference list.
C13_SameSchemasHaveNoDifference ==
    /\ tsPc = "returned"
    /\ SameColumns(tsSource, tsTarget)
    /\ tsSource.PrimaryKeys = tsTarget.PrimaryKeys
    => /\ tsResult.hasDifferences = FALSE
       /\ tsResult.differences = <<>>

C13_Witness ==
    /\ tsPc = "returned"
    /\ tsSource = tsTarget
    /\ Len(tsSource.Columns) = MaxColumns
    /\ tsSource.PrimaryKeys # <<>>
    /\ tsResult.differences = <<>>

\* The column names of a schema.
ColumnNamesIn(schema) == {schema.Columns[k].Name : k \in DOMAIN schema.Columns}

\* The entries of the returned list of one kind about one column.
EntriesAbout(kind, colName) ==
    {k \in DOMAIN tsResult.differences :
        /\ tsResult.differences[k].kind = kind
        /\ tsResult.differences[k].column = colName}

\* C14: a column name present only in the source schema gets exactly one
\* "exists in source but not in target" entry and no "exists in target but not
\* in source" entry; a column name present only in the target schema gets
\* exactly one of the latter and none of the former.
C14_OneEntryPerOneSidedColumn ==
    tsPc = "returned" =>
        \A c \in ColumnNames :
            /\ c \in ColumnNamesIn(tsSource) \ ColumnNamesIn(tsTarget)
               => /\ Cardinality(EntriesAbout("column in source only", c)) = 1
                  /\ EntriesAbout("column in target only", c) = {}
            /\ c \in ColumnNamesIn(tsTarget) \ ColumnNamesIn(tsSource)
               => /\ Cardinality(EntriesAbout("column in target only", c)) = 1
                  /\ EntriesAbout("column in source only", c) = {}

C14_Witness ==
    /\ tsPc = "returned"
    /\ ColumnNamesIn(tsSource) \ ColumnNamesIn(tsTarget) # {}
    /\ ColumnNamesIn(tsTarget) \ ColumnNamesIn(tsSource) # {}
    /\ Len(tsResult.differences) >= 2

\* The column of that name in a schema.
ColumnOf(schema, colName) ==
    schema.Columns[CHOOSE k \in DOMAIN schema.Columns : schema.Columns[k].Name = colName]

\* C15: a column name present on both sides gets exactly one data-type entry
\* if and only if the two data types differ and exactly one nullable entry if
\* and only if the two nullable markers differ, each entry carrying the source
\* value as source and the target value as target; a column equal in both
\* properties gets no entry.
C15_CommonColumnEntries ==
    tsPc = "returned" =>
        \A c \in ColumnNamesIn(tsSource) \cap ColumnNamesIn(tsTarget) :
            LET sourceCol == ColumnOf(tsSource, c)
                targetCol == ColumnOf(tsTarget, c)
                differing == (IF sourceCol.DataType # targetCol.DataType THEN 1 ELSE 0)
                             + (IF sourceCol.Nullable # targetCol.Nullable THEN 1 ELSE 0)
            IN /\ Cardinality(EntriesAbout("data type", c))
                    = IF sourceCol.DataType # targetCol.DataType THEN 1 ELSE 0
               /\ \A k \in EntriesAbout("data type", c) :
                     /\ tsResult.differences[k].source = <<sourceCol.DataType>>
                     /\ tsResult.differences[k].target = <<targetCol.DataType>>
               /\ Cardinality(EntriesAbout("nullable", c))
                    = IF sourceCol.Nullable # targetCol.Nullable THEN 1 ELSE 0
               /\ \A k \in EntriesAbout("nullable", c) :
                     /\ tsResult.differences[k].source = <<sourceCol.Nullable>>
                     /\ tsResult.differences[k].target = <<targetCol.Nullable>>
               /\ Cardinality({k \in DOMAIN tsResult.differences :
                                 tsResult.differences[k].column = c}) = differing

C15_Witness ==
    /\ tsPc = "returned"
    /\ \E c \in ColumnNamesIn(tsSource) \cap ColumnNamesIn(tsTarget) :
          /\ ColumnOf(tsSource, c).DataType # ColumnOf(tsTarget, c).DataType
          /\ ColumnOf(tsSource, c).Nullable # ColumnOf(tsTarget, c).Nullable
          /\ EntriesAbout("data type", c) # {}
          /\ EntriesAbout("nullable", c) # {}
    /\ \E c \in ColumnNamesIn(tsSource) \cap ColumnNamesIn(tsTarget) :
          ColumnOf(tsSource, c) = ColumnOf(tsTarget, c)

\* The lists with the elements of s in any order.
PermutationsOf(s) ==
    {[k \in DOMAIN s |-> s[p[k]]] : p \in Perms(DOMAIN s)}

\* C16: compareStringSlices is order-independent: every permutation of the
\* first list compares to every permutation of the second as the two lists
\* themselves do, and a list compares equal to any permutation of itself.
C16_PrimaryKeyComparisonIgnoresOrder ==
    pkPc = "returned" =>
        /\ \A a \in PermutationsOf(pkSource), b \in PermutationsOf(pkTarget) :
              compareStringSlices(a, b) = pkResult.equal
        /\ pkTarget \in PermutationsOf(pkSource) => pkResult.equal = TRUE

C16_Witness ==
    /\ pkPc = "returned"
    /\ pkTarget \in PermutationsOf(pkSource)
    /\ pkTarget # pkSource
    /\ pkResult.equal = TRUE

\* C17: compareTableSchema emits a "different primary keys" entry if and only
\* if the set of names in the source PrimaryKeys list differs from the set of
\* names in the target PrimaryKeys list, lists that repeat a name included.
C17_PrimaryKeyEntryIffSetsDiffer ==
    pkPc = "returned" =>
        ((\E k \in DOMAIN pkResult.differences :
              pkResult.differences[k].kind = "primary keys")
         <=> Range(pkSource) # Range(pkTarget))

\* The lines of the summary of one kind about one table.
LinesAbout(kind, tableName) ==
    {k \in DOMAIN summaryOut :
        summaryOut[k].kind = kind /\ summaryOut[k].table = tableName}

\* C18: when every common table has identical schemas on both sides and equal
\* row counts, the summary reports |missing| + |extra| differing tables ("No
\* differences found" when that is zero), lists each missing and each extra
\* table once, and prints no schema-difference entry (and no row-count entry).
C18_OnlyMissingAndExtraReported ==
    /\ Finished
    /\ \A t \in DOMAIN sourceSchemas \cap DOMAIN targetSchemas :
          sourceSchemas[t] = targetSchemas[t]
    /\ \A k \in DOMAIN rowCountCalls :
          /\ ~rowCountCalls[k].err
          /\ rowCountCalls[k].sourceCount = rowCountCalls[k].targetCount
    => LET missing == Range(sourceTables) \ Range(targetTables)
           extra == Range(targetTables) \ Range(sourceTables)
           n == Cardinality(missing) + Cardinality(extra)
       IN /\ IF n = 0
             THEN summaryOut = <<Line("No differences found", 0, 0, 0, NoText, 0)>>
             ELSE summaryOut[1] = Line("Found differences in n tables", 0, 0, 0, NoText, n)
          /\ \A t \in TableNames :
                /\ Cardinality(LinesAbout("exists in source but not in target", t))
                     = IF t \in missing THEN 1 ELSE 0
                /\ Cardinality(LinesAbout("exists in target but not in source", t))
                     = IF t \in extra THEN 1 ELSE 0
          /\ \A k \in DOMAIN summaryOut :
                summaryOut[k].kind \notin
                    {"schema difference", "and more differences", "row counts differ"}

C18_Witness ==
    /\ Finished
    /\ commonTables # <<>>
    /\ \A t \in DOMAIN sourceSchemas \cap DOMAIN targetSchemas :
          sourceSchemas[t] = targetSchemas[t]
    /\ \A k \in DOMAIN rowCountCalls :
          /\ ~rowCountCalls[k].err
          /\ rowCountCalls[k].sourceCount = rowCountCalls[k].targetCount
    /\ Len(missingTables) = 1
    /\ Len(summaryOut) = 2
    /\ summaryOut[1].n = 1

\* The tags GetAdapter has an adapter for.
SupportedTags == {"mysql", "postgres", "sqlite"}

\* main is past its GetAdapter call (a run that ended with status 0 before the
\* row-count pass ended at the usage check).
GetAdapterReturned == pc \notin {"start", "getAdapter"} /\ exitCode # 0

\* C19: GetAdapter returns a non-nil adapter and no error exactly for mysql,
\* postgres and sqlite, and a nil adapter and an error for every other tag;
\* the run then ends before any connection is opened and any query is issued.
C19_OnlySupportedTagsGetAnAdapter ==
    /\ GetAdapter(dbType).err <=> dbType \notin SupportedTags
    /\ GetAdapter(dbType).adapter = "nil" <=> dbType \notin SupportedTags
    /\ GetAdapterReturned => adapter = GetAdapter(dbType).adapter
    /\ GetAdapterReturned /\ dbType \in SupportedTags => adapter # "nil"
    /\ GetAdapterReturned /\ dbType \notin SupportedTags
       => /\ adapter = "nil"
          /\ pc = "exited"
          /\ exitCode = 1
    /\ dbType \notin SupportedTags
       => /\ sourceDB = "none"
          /\ targetDB = "none"
          /\ sourceTables = <<>>
          /\ targetTables = <<>>
          /\ sourceSchemas = EmptyMap
          /\ targetSchemas = EmptyMap
          /\ rowCountCalls = <<>>

C19_Witness ==
    /\ dbType \notin SupportedTags
    /\ GetAdapterReturned
    /\ pc = "exited"
    /\ sourceDB = "none"

\* The run was ended by log.Fatalf.
Failed == pc = "exited" /\ exitCode = 1

SameRows(a, b) ==
    \A row \in Range(a) \cup Range(b) : Occurrences(a, row) = Occurrences(b, row)

C22_SQLiteCountsThenRowidSums ==
    sqPc = "returned" /\ ~sqDbError =>
        IF Cardinality(sqSourceRowids) # Cardinality(sqTargetRowids)
        THEN /\ sqReturn.differs = TRUE
             /\ \A k \in DOMAIN sqQueries :
                   sqQueries[k] \notin {"total source", "total target"}
        ELSE sqReturn.differs = TRUE
                <=> totalRowid(sqSourceRowids) # totalRowid(sqTargetRowids)

\* The (name, column) keys of an index list with their uniqueness flags.
IndexSet(indexes) ==
    {<<indexes[k].Name, indexes[k].ColumnName,
       indexMap(indexes)[indexes[k].Name][indexes[k].ColumnName].NonUnique>> :
        k \in DOMAIN indexes}

\* The (name, column, referenced table, referenced column) tuples of a list.
ForeignKeySet(fks) ==
    {<<fks[k].Name, fks[k].ColumnName, fks[k].ReferencedTable, fks[k].ReferencedColumn>> :
        k \in DOMAIN fks}

\* C23: compareIndexes returns true exactly when the two index lists differ as
\* sets keyed by (name, column) with their uniqueness flag, compareForeignKeys
\* returns true exactly when the two lists differ as sets of (name, column,
\* referenced table, referenced column) tuples, and each returns false when
\* the sets are equal.
C23_IndexAndForeignKeyFindingsReturned ==
    /\ ixPc = "indexes compared"
       => (ixReturn = TRUE <=> IndexSet(sourceIndexes) # IndexSet(targetIndexes))
    /\ ixPc = "foreign keys compared"
       => (ixReturn = TRUE <=> ForeignKeySet(sourceFKs) # ForeignKeySet(targetFKs))

\* The size query of a side fails (GetTableList having succeeded).
SizeProbeFails(side) ==
    /\ ~diListFailed[side]
    /\ sizeProbe(diAdapter, diTables[side], diSize[side], diProbeFailed[side]).err

\* GetDatabaseInfo has returned for a side and main has handled its error.
Collected(side) ==
    \/ diPc \in {"display", "compareDatabases"}
    \/ side = "source" /\ diPc = "collect target"

\* main printed a warning about a side.
WarnedAbout(side) ==
    \E k \in DOMAIN diOut :
        diOut[k].kind = "Warning: couldn't collect full database info"
        /\ diOut[k].side = side

\* C24: a failing size query in GetDatabaseInfo is never fatal: GetDatabaseInfo
\* returns no error, TotalSize keeps its zero value, the run goes on to the
\* comparison, and a warning is printed for the failed query.
C24_FailedSizeProbeIsWarnedAbout ==
    \A side \in Sides :
        Collected(side) /\ SizeProbeFails(side) =>
            /\ diErr[side] = FALSE
            /\ diInfo[side].TotalSize = 0
            /\ WarnedAbout(side)

\* C25: every TableSchema that GetTableSchema of the MySQL, PostgreSQL or
\* SQLite adapter returns without an error has each name of PrimaryKeys among
\* the names of its Columns, and a column has Key "PRI" exactly when its name
\* is in PrimaryKeys.
C25_PrimaryKeysNameColumns ==
    exPc = "returned" /\ ~exErr =>
        /\ \A k \in DOMAIN exSchema.PrimaryKeys :
              \E c \in DOMAIN exSchema.Columns :
                  exSchema.Columns[c].Name = exSchema.PrimaryKeys[k]
        /\ \A c \in DOMAIN exSchema.Columns :
              exSchema.Columns[c].Key = "PRI"
              <=> exSchema.Columns[c].Name \in Range(exSchema.PrimaryKeys)

\* Two schemas that agree in everything compareTableSchema looks at but are
\* not the same schema.
DifferOnlyInUncomparedFields(s, t) ==
    /\ s # t
    /\ SameColumns(s, t)
    /\ s.PrimaryKeys = t.PrimaryKeys

\* C26: index and foreign-key findings are never folded into the difference
\* list: a common table whose two schemas differ only in Indexes, ForeignKeys
\* or the column fields Key, Default and Extra has no entry in
\* schemaDifferences, and is in DifferentTables only when the row-count pass
\* put it there for a row-count mismatch.
C26_OnlyColumnsAndPrimaryKeysCompared ==
    Compared =>
        \A t \in Range(commonTables) :
            DifferOnlyInUncomparedFields(sourceSchemas[t], targetSchemas[t]) =>
                /\ t \notin DOMAIN schemaDifferences
                /\ contains(summary.DifferentTables, t)
                   => t \in DOMAIN summary.DifferentRowCounts

C26_Witness ==
    /\ Finished
    /\ \E t \in Range(commonTables) :
          /\ DifferOnlyInUncomparedFields(sourceSchemas[t], targetSchemas[t])
          /\ sourceSchemas[t].Indexes # targetSchemas[t].Indexes
          /\ sourceSchemas[t].Columns[1].Key # targetSchemas[t].Columns[1].Key
          /\ ~contains(summary.DifferentTables, t)
    /\ schemaDifferences # EmptyMap

\* Two lists with the same entries, each as often in the one as in the other.
SameMultiset(a, b) ==
    \A x \in Range(a) \cup Range(b) : Occurrences(a, x) = Occurrences(b, x)

\* The column names in the order of ColumnNamePool, for both loops.
PoolOrder(names) ==
    LET order == SelectSeq(ColumnNamePool, LAMBDA c : c \in names)
    IN [src |-> order, tgt |-> order]

\* One run of the range loops of compareDatabases: tables ascending, columns
\* in the order of ColumnNamePool.
AscendingOrders(sources, targets) ==
    [src |-> Ascending(DOMAIN sources),
     tgt |-> Ascending(DOMAIN targets),
     col |-> [t \in DOMAIN sources \cap DOMAIN targets |->
                PoolOrder(columnNamesOf(sources) \cup columnNamesOf(targets))]]

\* The column visiting orders of one compareTableSchema call of the call.
ColumnOrders ==
    LET cols == columnNamesOf(cdSource) \cup columnNamesOf(cdTarget)
    IN [src : Perms(cols), tgt : Perms(cols)]

\* compareTableSchema for a common table of the call, under given orders.
ComparedWith(t, order) ==
    compareTableSchema(t, cdSource[t], cdTarget[t], order.src, order.tgt)

\* C27: map iteration order affects only the order of results: whatever the
\* orders of the range loops, compareTableSchema returns the same boolean and
\* the same multiset of differences, and compareDatabases returns the same
\* missing, extra and common sets and the same differences for each table.
C27_IterationOrderChangesOnlyTheOrder ==
    cdPc = "returned" =>
        LET one == compareDatabases(cdSource, cdTarget,
                                    AscendingOrders(cdSource, cdTarget))
        IN /\ SameMultiset(cdResult.missingTables, one.missingTables)
           /\ SameMultiset(cdResult.extraTables, one.extraTables)
           /\ SameMultiset(cdResult.commonTables, one.commonTables)
           /\ DOMAIN cdResult.schemaDifferences = DOMAIN one.schemaDifferences
           /\ \A t \in DOMAIN cdResult.schemaDifferences :
                 SameMultiset(cdResult.schemaDifferences[t], one.schemaDifferences[t])
           /\ \A t \in DOMAIN cdSource \cap DOMAIN cdTarget :
                 \A order \in ColumnOrders :
                    /\ ComparedWith(t, order).hasDifferences
                         = ComparedWith(t, PoolOrder(DOMAIN columnMap(cdSource[t].Columns)
                                 \cup DOMAIN columnMap(cdTarget[t].Columns))).hasDifferences
                    /\ SameMultiset(ComparedWith(t, order).differences,
                                    ComparedWith(t, PoolOrder(
                                        DOMAIN columnMap(cdSource[t].Columns)
                                        \cup DOMAIN columnMap(cdTarget[t].Columns))).differences)

\* The differences of a table came out in another order than with ascending
\* tables and pool-ordered columns, and so did the common tables.
C27_Witness ==
    /\ cdPc = "returned"
    /\ LET one == compareDatabases(cdSource, cdTarget,
                                   AscendingOrders(cdSource, cdTarget))
       IN /\ cdResult.commonTables # one.commonTables
          /\ \E t \in DOMAIN cdResult.schemaDifferences :
                cdResult.schemaDifferences[t] # one.schemaDifferences[t]

\* C28: schemaDifferences has a key exactly for the common tables on which
\* compareTableSchema reports a difference, never for a missing or an extra
\* table; every stored list is non-empty; and compareTableSchema's boolean is
\* true exactly when the list it returns is non-empty.
C28_SchemaDifferencesKeys ==
    cdPc = "returned" =>
        /\ DOMAIN cdResult.schemaDifferences
             = {t \in DOMAIN cdSource \cap DOMAIN cdTarget :
                   \E order \in ColumnOrders : ComparedWith(t, order).hasDifferences}
        /\ DOMAIN cdResult.schemaDifferences
             \cap (Range(cdResult.missingTables) \cup Range(cdResult.extraTables)) = {}
        /\ \A t \in DOMAIN cdResult.schemaDifferences :
              cdResult.schemaDifferences[t] # <<>>
        /\ \A t \in DOMAIN cdSource \cap DOMAIN cdTarget :
              \A order \in ColumnOrders :
                  ComparedWith(t, order).hasDifferences
                  <=> ComparedWith(t, order).differences # <<>>

\* A call with an extra table, a common table without and one with differences.
C28_Witness ==
    /\ cdPc = "returned"
    /\ cdResult.extraTables # <<>>
    /\ DOMAIN cdResult.schemaDifferences # {}
    /\ Range(cdResult.commonTables) \ DOMAIN cdResult.schemaDifferences # {}

\* C30: swapping source and target mirrors the result: compareDatabases(T, S)
\* returns as missing what compareDatabases(S, T) returns as extra and the
\* other way round, the same common set and the same set of tables with schema
\* differences, with as many difference entries for each of them.
C30_SwappingSidesMirrorsTheResult ==
    cdPc = "returned" =>
        LET swapped == compareDatabases(cdTarget, cdSource,
                                        AscendingOrders(cdTarget, cdSource))
        IN /\ Range(swapped.missingTables) = Range(cdResult.extraTables)
           /\ Range(swapped.extraTables) = Range(cdResult.missingTables)
           /\ Range(swapped.commonTables) = Range(cdResult.commonTables)
           /\ DOMAIN swapped.schemaDifferences = DOMAIN cdResult.schemaDifferences
           /\ \A t \in DOMAIN cdResult.schemaDifferences :
                 Len(swapped.schemaDifferences[t]) = Len(cdResult.schemaDifferences[t])

\* A call whose two sides are not interchangeable: a missing table, no extra
\* one, and a common table with a column on the target only.
C30_Witness ==
    /\ cdPc = "returned"
    /\ cdResult.missingTables # <<>>
    /\ cdResult.extraTables = <<>>
    /\ \E t \in DOMAIN cdResult.schemaDifferences :
          \E k \in DOMAIN cdResult.schemaDifferences[t] :
              cdResult.schemaDifferences[t][k].kind = "column in target only"

\* The table names listed under the first line of the summary.
ListedTables ==
    {summaryOut[k].table :
        k \in {j \in DOMAIN summaryOut :
                 summaryOut[j].kind \in {"row counts differ",
                                         "exists in source but not in target",
                                         "exists in target but not in source",
                                         "schema difference"}}}

\* C29: whenever the summary prints "Found differences in N tables", N is the
\* number of distinct table names listed beneath it in the row-count, missing,
\* extra and schema-only buckets.
C29_HeaderCountsTheListedTables ==
    Finished /\ summaryOut # <<>>
    /\ summaryOut[1].kind = "Found differences in n tables"
    => summaryOut[1].n = Cardinality(ListedTables)

=============================================================================
